---- MODULE Spec2Model ----
(***************************************************************************)
(* A model of the libretto core: the timing estimator, the anchor          *)
(* resolver, the content classifier, the bilingual aligner and the overlay *)
(* validator.                                                              *)
(*                                                                         *)
(* Conventions                                                             *)
(*   - Option<T> is a sequence of length <= 1: <<>> is None, <<x>> Some(x).*)
(*   - Text (String) is a sequence of characters; a character is a short   *)
(*     string: "a", " ", "LF" (newline), "DQ" (the straight double quote), *)
(*     "LDQ"/"RDQ" (typographic double quotes), "APOS" (the apostrophe). *)
(*   - Times and durations (f64 seconds in the code) are integers in       *)
(*     milliseconds; weights (f64) are integers in quarter units, so that  *)
(*     0.5 is 2 and the discounted floor 0.25 is 1.  Arithmetic is exact.  *)
(***************************************************************************)
EXTENDS Integers, Sequences, FiniteSets, TLC

VARIABLES
    pc,            \* which operation has run
    d_segments,    \* distribute_segments: the weighted segments handed in
    d_duration,    \* distribute_segments: the duration handed in (ms)
    d_times,       \* distribute_segments: the SegmentTime list returned
    base,          \* the BaseLibretto handed to estimator / resolver
    overlay,       \* the caller's TimingOverlay
    est,           \* EstimateResult (overlay, warnings) or <<>>
    res,           \* ResolveResult (overlay, resolutions, warnings) or <<>>
    it_elements,   \* the classifier: the original-language token stream
    en_elements,   \* the classifier: the translation token stream
    parsed,        \* the two PipelineResults and the BaseLibretto, or <<>>
    orig_segs,     \* align_segments: the original segments handed in
    trans_segs,    \* align_segments: the translation segments handed in
    aligned,       \* align_segments: the original segments afterwards
    validation,    \* validate_timing_overlay: errors and coverage, or <<>>
    merged,        \* merge: the MergeResult, or <<>>
    output,        \* timing merge: the interchange document written, or <<>>
    c_title,       \* classify_title_anchors: the title handed in
    c_anchors      \* classify_title_anchors: the TitleAnchor list returned

distributeVars == <<d_segments, d_duration, d_times>>
timingVars == <<base, overlay, est, res>>
parseVars == <<it_elements, en_elements, parsed>>
alignVars == <<orig_segs, trans_segs, aligned>>
mergeVars == <<merged, output>>

classifyVars == <<c_title, c_anchors>>

vars == <<pc, distributeVars, timingVars, parseVars, alignVars, validation, mergeVars,
          classifyVars>>

---------------------------------------------------------------------------
(* Generic helpers *)

None == <<>>

Some(x) == <<x>>

IsSome(o) == o # <<>>

RECURSIVE SumSeq(_)
SumSeq(s) == IF s = <<>> THEN 0 ELSE Head(s) + SumSeq(Tail(s))

RECURSIVE Flatten(_)
Flatten(ss) == IF ss = <<>> THEN <<>> ELSE Head(ss) \o Flatten(Tail(ss))

Range(s) == { s[i] : i \in 1..Len(s) }

Contains(s, x) == \E i \in 1..Len(s) : s[i] = x

Max(S) == CHOOSE x \in S : \A y \in S : y <= x

Min(S) == CHOOSE x \in S : \A y \in S : x <= y

\* A Vec: the sequence with every element evaluated
Vec(s) == s \o <<>>

\* All sequences over S of length lo..hi
SeqsUpTo(S, lo, hi) == UNION { [1..n -> S] : n \in lo..hi }

---------------------------------------------------------------------------
(* estimate.rs: weights and the distribution law *)

\* MIN_SEGMENT_WEIGHT = 0.5, in quarter units
MIN_SEGMENT_WEIGHT == 2

\* One whole word, in quarter units
WORD_UNIT == 4

\* RECITATIVE_DISCOUNT = 0.5: weight * 0.5 is weight \div RECIT_DIVISOR
RECIT_DIVISOR == 2

IsWhitespace(c) == c \in {" ", "LF", "TAB"}

\* str::split_whitespace().count()
WordCount(t) ==
    Cardinality({ i \in 1..Len(t) :
                    /\ ~IsWhitespace(t[i])
                    /\ (i = 1 \/ IsWhitespace(t[i-1])) })

word_weight(text, seg_type) ==
    IF seg_type \in {"Direction", "Interlude"}
    THEN MIN_SEGMENT_WEIGHT
    ELSE LET count == IF IsSome(text) THEN WordCount(text[1]) ELSE 0
         IN  IF count = 0 THEN MIN_SEGMENT_WEIGHT ELSE count * WORD_UNIT

\* Rounding toward zero in place of f64::round
round_toward_zero(num, den) == num \div den

\* round_to_ms of the exact quotient num/den (den > 0), a value in ms:
\* f64::round rounds half away from zero.
round_to_ms(num, den) ==
    IF num >= 0 THEN (2 * num + den) \div (2 * den)
                ELSE 0 - ((2 * (0 - num) + den) \div (2 * den))

RECURSIVE DistributeLoop(_, _, _, _, _)
DistributeLoop(segments, i, cumulative, total_weight, duration) ==
    IF i > Len(segments) THEN <<>>
    ELSE <<[segment_id |-> segments[i].id,
            start |-> round_to_ms(cumulative * duration, total_weight)]>>
         \o DistributeLoop(segments, i + 1, cumulative + segments[i].weight,
                           total_weight, duration)

distribute_segments(segments, duration) ==
    IF segments = <<>> \/ duration <= 0 THEN <<>>
    ELSE LET total_weight == SumSeq([i \in 1..Len(segments) |-> segments[i].weight])
         IN  IF total_weight = 0 THEN <<>>
             ELSE DistributeLoop(segments, 1, 0, total_weight, duration)

---------------------------------------------------------------------------
(* Text helpers: str methods used by resolve.rs, on character sequences *)

StartsWith(s, p) == Len(p) <= Len(s) /\ SubSeq(s, 1, Len(p)) = p

MatchAt(s, sub, i) == i + Len(sub) - 1 <= Len(s) /\ SubSeq(s, i, i + Len(sub) - 1) = sub

\* str::contains
ContainsSub(s, sub) == \E i \in 1..(Len(s) + 1) : MatchAt(s, sub, i)

\* str::find from index `from` (1-based); 0 when absent
Find(s, sub, from) ==
    LET hits == { i \in from..(Len(s) + 1) : MatchAt(s, sub, i) }
    IN  IF hits = {} THEN 0 ELSE Min(hits)

\* str::rfind (1-based); 0 when absent
RFind(s, sub) ==
    LET hits == { i \in 1..(Len(s) + 1) : MatchAt(s, sub, i) }
    IN  IF hits = {} THEN 0 ELSE Max(hits)

\* str::trim
Trim(s) ==
    LET keep == { i \in 1..Len(s) : ~IsWhitespace(s[i]) }
    IN  IF keep = {} THEN <<>> ELSE SubSeq(s, Min(keep), Max(keep))

UpperLetters == <<"A","B","C","D","E","F","G","H","I","J","K","L","M",
                  "N","O","P","Q","R","S","T","U","V","W","X","Y","Z">>

LowerLetters == <<"a","b","c","d","e","f","g","h","i","j","k","l","m",
                  "n","o","p","q","r","s","t","u","v","w","x","y","z">>

LowerChar(c) ==
    IF \E k \in 1..Len(UpperLetters) : UpperLetters[k] = c
    THEN LowerLetters[CHOOSE k \in 1..Len(UpperLetters) : UpperLetters[k] = c]
    ELSE c

\* str::to_lowercase
ToLower(s) == [i \in 1..Len(s) |-> LowerChar(s[i])]

\* nfd() followed by dropping the combining marks: an accented letter
\* ("a_grave", ...) becomes its base letter
Accented == <<"a_grave", "e_grave", "i_grave", "o_grave", "u_grave">>

Unaccented == <<"a", "e", "i", "o", "u">>

StripAccents(s) ==
    [i \in 1..Len(s) |->
        IF \E k \in 1..Len(Accented) : Accented[k] = s[i]
        THEN Unaccented[CHOOSE k \in 1..Len(Accented) : Accented[k] = s[i]]
        ELSE s[i]]

\* str::replace(from, to): left to right, non-overlapping
RECURSIVE ReplaceAll(_, _, _)
ReplaceAll(s, from, to) ==
    IF s = <<>> THEN <<>>
    ELSE IF MatchAt(s, from, 1)
         THEN to \o ReplaceAll(SubSeq(s, Len(from) + 1, Len(s)), from, to)
         ELSE <<Head(s)>> \o ReplaceAll(Tail(s), from, to)

normalize_for_match(text) ==
    LET s1 == ToLower(StripAccents(text))
        s2 == ReplaceAll(ReplaceAll(s1, <<"LSQ">>, <<"APOS">>), <<"RSQ">>, <<"APOS">>)
        s3 == ReplaceAll(ReplaceAll(s2, <<"LDQ">>, <<"DQ">>), <<"RDQ">>, <<"DQ">>)
        s4 == ReplaceAll(s3, <<".", ".", ".">>, <<"ELLIPSIS">>)
        s5 == SelectSeq(s4, LAMBDA c : c \notin {",", ";", ":", "!", "?"})
        s6 == ReplaceAll(s5, <<" ", " ">>, <<" ">>)
    IN  Trim(s6)

---------------------------------------------------------------------------
(* resolve.rs: anchors of a track title *)

RECURSIVE ExtractFrom(_, _)
ExtractFrom(title, i) ==
    IF i > Len(title) THEN <<>>
    ELSE IF title[i] \in {"DQ", "LDQ"}
         THEN LET close == IF title[i] = "LDQ" THEN "RDQ" ELSE "DQ"
                  ends == { j \in (i + 1)..Len(title) : title[j] \in {close, "DQ"} }
                  j == IF ends = {} THEN Len(title) + 1 ELSE Min(ends)
                  trimmed == Trim(SubSeq(title, i + 1, j - 1))
              IN  (IF trimmed # <<>> THEN <<trimmed>> ELSE <<>>)
                  \o ExtractFrom(title, j + 1)
         ELSE ExtractFrom(title, i + 1)

extract_anchors(title) == ExtractFrom(title, 1)

KW_RECITATIV == <<"r","e","c","i","t","a","t","i","v">>

SungKeywords == {
    <<"a","r","i","a">>,
    <<"d","u","e","t","t">>,
    <<"c","a","v","a","t","i","n","a">>,
    <<"c","a","n","z","o","n">>,
    <<"t","e","r","z","e","t","t">>,
    <<"q","u","a","r","t","e","t","t">>,
    <<"q","u","i","n","t","e","t","t">>,
    <<"s","e","s","t","e","t","t">>,
    <<"f","i","n","a","l","e">>,
    <<"c","o","r","o">>,
    <<"s","i","n","f","o","n","i","a">>,
    <<"m","a","r","c","i","a">> }

is_recitative_context(context) ==
    LET recit_pos == RFind(context, KW_RECITATIV)
        sung == { RFind(context, kw) : kw \in SungKeywords } \ {0}
    IN  IF recit_pos # 0 /\ sung # {} THEN recit_pos > Max(sung)
        ELSE recit_pos # 0

\* The loop of classify_title_anchors: search_from is 1-based
RECURSIVE ClassifyLoop(_, _, _)
ClassifyLoop(title, anchors, search_from) ==
    IF anchors = <<>> THEN <<>>
    ELSE LET anchor == Head(anchors)
             abs_pos == Find(title, anchor, search_from)
         IN  IF abs_pos = 0 THEN ClassifyLoop(title, Tail(anchors), search_from)
             ELSE <<[is_recitative |->
                        is_recitative_context(
                            ToLower(SubSeq(title, search_from, abs_pos - 1))),
                     anchor |-> anchor]>>
                  \o ClassifyLoop(title, Tail(anchors), abs_pos + Len(anchor))

classify_title_anchors(title) == ClassifyLoop(title, extract_anchors(title), 1)

---------------------------------------------------------------------------
(* resolve.rs: the candidate index and the matching cascade *)

\* text.split('\n').next()
FirstLine(text) ==
    LET nl == { i \in 1..Len(text) : text[i] = "LF" }
    IN  IF nl = {} THEN text ELSE SubSeq(text, 1, Min(nl) - 1)

NumberCandidates(number) ==
    LET withText == SelectSeq(number.segments, LAMBDA s : IsSome(s.text))
    IN  [k \in 1..Len(withText) |->
            [segment_id |-> withText[k].id,
             number_id |-> number.id,
             first_line |-> FirstLine(withText[k].text[1]),
             full_text |-> withText[k].text[1],
             first_line_norm |-> normalize_for_match(FirstLine(withText[k].text[1])),
             full_text_norm |-> normalize_for_match(withText[k].text[1])]]

build_segment_index(b) ==
    Flatten([n \in 1..Len(b.numbers) |-> NumberCandidates(b.numbers[n])])

\* The 15 of char_prefix(.., 15)
ANCHOR_PREFIX_LEN == 15

char_prefix(s, n) == IF Len(s) > n THEN SubSeq(s, 1, n) ELSE s

\* for pass in &[true, false] { for cand in candidates { .. } } of one
\* strategy, hits being the positions of the candidates the strategy accepts:
\* the first accepted candidate of the track's numbers, else the first
\* accepted candidate of any number
TwoPass(candidates, number_ids, hits) ==
    IF \E k \in hits : candidates[k].number_id \in number_ids
    THEN Some(candidates[Min({ k \in hits : candidates[k].number_id \in number_ids })].segment_id)
    ELSE IF hits # {} THEN Some(candidates[Min(hits)].segment_id)
    ELSE None

\* Strategy 1, prefix: either first line starts with the other's 15-char prefix
PrefixHits(anchor_norm, candidates) ==
    { k \in 1..Len(candidates) :
        \/ StartsWith(candidates[k].first_line_norm,
                      char_prefix(anchor_norm, ANCHOR_PREFIX_LEN))
        \/ StartsWith(anchor_norm,
                      char_prefix(candidates[k].first_line_norm, ANCHOR_PREFIX_LEN)) }

\* Strategy 2, normalized: the first line contains the anchor
NormalizedHits(anchor_norm, candidates) ==
    { k \in 1..Len(candidates) : ContainsSub(candidates[k].first_line_norm, anchor_norm) }

\* Strategy 3, substring: the full text contains the anchor
SubstringHits(anchor_norm, candidates) ==
    { k \in 1..Len(candidates) : ContainsSub(candidates[k].full_text_norm, anchor_norm) }

\* The cascade: the first strategy that returns a segment id
Cascade(m1, m2, m3) ==
    IF IsSome(m1) THEN Some(<<m1[1], "PrefixMatch">>)
    ELSE IF IsSome(m2) THEN Some(<<m2[1], "NormalizedMatch">>)
    ELSE IF IsSome(m3) THEN Some(<<m3[1], "SubstringMatch">>)
    ELSE None

MatchNormalized(anchor_norm, number_ids, candidates) ==
    Cascade(TwoPass(candidates, number_ids, PrefixHits(anchor_norm, candidates)),
            TwoPass(candidates, number_ids, NormalizedHits(anchor_norm, candidates)),
            TwoPass(candidates, number_ids, SubstringHits(anchor_norm, candidates)))

\* number_ids is used only through contains(): a set here.
\* Some(<<segment id, method>>) or None
match_anchor(anchor, number_ids, candidates) ==
    MatchNormalized(normalize_for_match(anchor), number_ids, candidates)

---------------------------------------------------------------------------
(* base_libretto.rs / timing_overlay.rs: lookups *)

\* BaseLibretto::find_number: the first number with that id
find_number(b, id) ==
    LET hits == { n \in 1..Len(b.numbers) : b.numbers[n].id = id }
    IN  IF hits = {} THEN None ELSE Some(b.numbers[Min(hits)])

\* BaseLibretto::segment_ids
base_segment_ids(b) ==
    Flatten([n \in 1..Len(b.numbers) |->
                [k \in 1..Len(b.numbers[n].segments) |-> b.numbers[n].segments[k].id]])

\* TimingOverlay::covered_number_ids: sorted and deduplicated in the code,
\* and used by its callers only through contains(): a set here
covered_number_ids(ov) ==
    UNION { Range(ov.track_timings[i].number_ids) : i \in 1..Len(ov.track_timings) }

\* TimingOverlay::omitted_number_ids
omitted_number_ids(ov) ==
    [k \in 1..Len(ov.omitted_numbers) |-> ov.omitted_numbers[k].number_id]

---------------------------------------------------------------------------
(* estimate.rs: boundary mode *)

collect_number_segments(number) ==
    Vec([k \in 1..Len(number.segments) |->
            [id |-> number.segments[k].id,
             weight |-> word_weight(number.segments[k].text,
                                    number.segments[k].segment_type)]])

\* The global ordered segment list of estimate_with_boundaries
AllSegments(b, ov) ==
    Flatten([n \in 1..Len(b.numbers) |->
                IF b.numbers[n].id \in covered_number_ids(ov)
                THEN collect_number_segments(b.numbers[n]) ELSE <<>>])

\* seg_index.get(sid): a HashMap collected from (id, position) pairs keeps
\* the last position of an id.  Positions are 0-based as in the code.
SegIndexGet(all_segments, sid) ==
    IF \E p \in 1..Len(all_segments) : all_segments[p].id = sid
    THEN Some(Max({ p \in 1..Len(all_segments) : all_segments[p].id = sid }) - 1)
    ELSE None

\* The position of a matched anchor in the global list
MarkPosition(m, all_segments) ==
    IF IsSome(m) THEN SegIndexGet(all_segments, m[1][1]) ELSE None

\* if pos >= start_pos && pos < end_pos { marks.push((pos, is_recitative)) }
MarkInRange(pos, is_recitative, start_pos, end_pos) ==
    IF IsSome(pos) /\ pos[1] >= start_pos /\ pos[1] < end_pos
    THEN <<<<pos[1], is_recitative>>>> ELSE <<>>

\* marks: <<position, is_recitative>> in title order, those inside the range
RECURSIVE MarksLoop(_, _, _, _, _, _)
MarksLoop(title_anchors, start_pos, end_pos, all_segments, candidates, all_nids) ==
    IF title_anchors = <<>> THEN <<>>
    ELSE MarkInRange(MarkPosition(match_anchor(Head(title_anchors).anchor,
                                               all_nids, candidates),
                                  all_segments),
                     Head(title_anchors).is_recitative, start_pos, end_pos)
         \o MarksLoop(Tail(title_anchors), start_pos, end_pos,
                      all_segments, candidates, all_nids)

\* marks.sort_by_key(pos) is stable; marks.iter().rev().find(pos <= global_pos)
\* is the mark of greatest position <= global_pos, the later one among equals
IsRecitAt(marks, global_pos) ==
    IF \E k \in 1..Len(marks) : marks[k][1] <= global_pos
    THEN marks[Max({ k \in 1..Len(marks) :
                       /\ marks[k][1] <= global_pos
                       /\ \A j \in 1..Len(marks) :
                            marks[j][1] <= global_pos => marks[j][1] <= marks[k][1] })][2]
    ELSE FALSE

resolve_section_marks(title, start_pos, end_pos, all_segments, candidates, all_nids) ==
    MarksLoop(classify_title_anchors(title), start_pos, end_pos,
              all_segments, candidates, all_nids)

\* The first segment of the first referenced number, when it is in the index
FallbackStart(n, all_segments) ==
    IF IsSome(n) /\ n[1].segments # <<>>
    THEN SegIndexGet(all_segments, n[1].segments[1].id) ELSE None

\* The start position of a track: its start_segment_id, or the first segment
\* of its first referenced number.  [pos: Option, warn: BOOLEAN]
BoundaryStart(b, all_segments, track) ==
    IF IsSome(track.start_segment_id)
    THEN [pos |-> SegIndexGet(all_segments, track.start_segment_id[1]),
          warn |-> ~IsSome(SegIndexGet(all_segments, track.start_segment_id[1]))]
    ELSE [pos |-> FallbackStart(IF track.number_ids = <<>> THEN None
                                ELSE find_number(b, track.number_ids[1]),
                                all_segments),
          warn |-> FALSE]

\* The later tracks whose start_segment_id is in the index
LaterStarts(all_segments, ov, i) ==
    { j \in (i + 1)..Len(ov.track_timings) :
        /\ IsSome(ov.track_timings[j].start_segment_id)
        /\ IsSome(SegIndexGet(all_segments, ov.track_timings[j].start_segment_id[1])) }

\* Every range running to the end of the list
BoundaryEndOfList(all_segments, ov, i) == Len(all_segments)

\* The end position of track i: the position of the start_segment_id of the
\* first later track that has one in the index, else the list length
BoundaryEnd(all_segments, ov, i) ==
    IF LaterStarts(all_segments, ov, i) = {} THEN Len(all_segments)
    ELSE SegIndexGet(all_segments,
                     ov.track_timings[Min(LaterStarts(all_segments, ov, i))]
                        .start_segment_id[1])[1]

\* The segments of a range with the recitative discount applied
TrackSegments(all_segments, start_pos, end_pos, marks) ==
    Vec([j \in 1..(end_pos - start_pos) |->
            [id |-> all_segments[start_pos + j].id,
             weight |-> IF IsRecitAt(marks, start_pos + j - 1)
                        THEN all_segments[start_pos + j].weight \div RECIT_DIVISOR
                        ELSE all_segments[start_pos + j].weight]])

\* TrackEstimateStats; total_word_weight is the quotient <<numerator, denominator>>
TrackStat(i, duration, segments_estimated, weight, divisor) ==
    [track |-> i, duration |-> duration, segments_estimated |-> segments_estimated,
     total_word_weight |-> <<weight, divisor>>]

TotalWeight(segments) == SumSeq([k \in 1..Len(segments) |-> segments[k].weight])

\* A track skipped by the loop: nothing written, no stat
SkipTrack(warnings) == [write |-> None, stats |-> <<>>, warnings |-> warnings]

\* The tail of the loop body: distribute and record
BoundaryWrite(i, duration, track_segments, segment_times) ==
    [write |-> Some(segment_times),
     stats |-> <<TrackStat(i, duration, Len(segment_times),
                           TotalWeight(track_segments), 1)>>,
     warnings |-> <<>>]

BoundaryDistribute(i, duration, track_segments) ==
    BoundaryWrite(i, duration, track_segments,
                  distribute_segments(track_segments, duration))

BoundaryRange(ov, i, all_segments, candidates, all_nids, start_pos, end_pos) ==
    IF start_pos >= end_pos
    THEN SkipTrack(<<[kind |-> "empty segment range", track |-> i]>>)
    ELSE BoundaryDistribute(i, ov.track_timings[i].duration_seconds[1],
             TrackSegments(all_segments, start_pos, end_pos,
                 resolve_section_marks(ov.track_timings[i].track_title,
                     start_pos, end_pos, all_segments, candidates, all_nids)))

BoundaryFrom(ov, i, all_segments, candidates, all_nids, st) ==
    IF ~IsSome(st.pos)
    THEN SkipTrack(IF st.warn
                   THEN <<[kind |-> "start_segment_id not found", track |-> i]>>
                   ELSE <<>>)
    ELSE BoundaryRange(ov, i, all_segments, candidates, all_nids,
                       st.pos[1], BoundaryEnd(all_segments, ov, i))

\* One iteration of the track loop of estimate_with_boundaries:
\* [write: Option<segment_times>, stats: Seq, warnings: Seq]
BoundaryTrack(b, ov, i, all_segments, candidates, all_nids) ==
    IF ov.track_timings[i].segment_times # <<>> THEN SkipTrack(<<>>)
    ELSE IF ~IsSome(ov.track_timings[i].duration_seconds) THEN SkipTrack(<<>>)
    ELSE BoundaryFrom(ov, i, all_segments, candidates, all_nids,
                      BoundaryStart(b, all_segments, ov.track_timings[i]))

\* result_overlay and the collected stats and warnings
BoundaryResult(ov, per) ==
    [overlay |-> [ov EXCEPT !.track_timings =
                     [i \in 1..Len(ov.track_timings) |->
                         IF IsSome(per[i].write)
                         THEN [ov.track_timings[i] EXCEPT !.segment_times = per[i].write[1]]
                         ELSE ov.track_timings[i]]],
     stats |-> Flatten([i \in 1..Len(per) |-> per[i].stats]),
     warnings |-> Flatten([i \in 1..Len(per) |-> per[i].warnings])]

BoundaryTracks(b, ov, all_segments, candidates, all_nids) ==
    BoundaryResult(ov, Vec([i \in 1..Len(ov.track_timings) |->
                               BoundaryTrack(b, ov, i, all_segments, candidates, all_nids)]))

estimate_with_boundaries(b, ov) ==
    BoundaryTracks(b, ov, AllSegments(b, ov), build_segment_index(b),
                   covered_number_ids(ov))

---------------------------------------------------------------------------
(* estimate.rs: number mode *)

\* collect_track_segments, one referenced number: [segments, warnings]
CollectOne(n, number_id) ==
    IF IsSome(n)
    THEN [segments |-> collect_number_segments(n[1]), warnings |-> <<>>]
    ELSE [segments |-> <<>>,
          warnings |-> <<[kind |-> "track number not found", id |-> number_id]>>]

CollectJoin(per) ==
    [segments |-> Flatten([k \in 1..Len(per) |-> per[k].segments]),
     warnings |-> Flatten([k \in 1..Len(per) |-> per[k].warnings])]

\* collect_track_segments: [segments, warnings]
collect_track_segments(b, track) ==
    CollectJoin(Vec([k \in 1..Len(track.number_ids) |->
                        CollectOne(find_number(b, track.number_ids[k]),
                                   track.number_ids[k])]))

\* number_to_tracks[number_id]: one entry per occurrence of the id in a
\* track's number_ids, in track order
TrackRefs(ov, number_id) ==
    Flatten([i \in 1..Len(ov.track_timings) |->
                [k \in 1..Cardinality({ p \in 1..Len(ov.track_timings[i].number_ids) :
                                          ov.track_timings[i].number_ids[p] = number_id })
                    |-> i]])

\* The referencing tracks with a duration, populated or not
TrackDurationsOfAll(ov, track_indices) ==
    Vec([k \in 1..Len(track_indices) |->
            IF IsSome(ov.track_timings[track_indices[k]].duration_seconds)
            THEN <<<<track_indices[k],
                     ov.track_timings[track_indices[k]].duration_seconds[1]>>>>
            ELSE <<>>])

\* track_durations: the referencing tracks with empty segment_times and a
\* duration, as <<track index, duration>>
TrackDurations(ov, track_indices) ==
    Vec([k \in 1..Len(track_indices) |->
            IF /\ ov.track_timings[track_indices[k]].segment_times = <<>>
               /\ IsSome(ov.track_timings[track_indices[k]].duration_seconds)
            THEN <<<<track_indices[k],
                     ov.track_timings[track_indices[k]].duration_seconds[1]>>>>
            ELSE <<>>])

\* The inner `while let Some(st) = time_iter.peek()` loop: how many of the
\* remaining times the current track takes
RECURSIVE TakeCount(_, _)
TakeCount(remaining, track_end) ==
    IF remaining = <<>> THEN 0
    ELSE IF remaining[1].start < track_end \/ Len(remaining) = 1
         THEN 1 + TakeCount(Tail(remaining), track_end)
         ELSE 0

\* seg.start = (seg.start - cumulative).max(0.0) on the n segments taken
Renormalized(remaining, n, cumulative) ==
    Vec([j \in 1..n |->
            [segment_id |-> remaining[j].segment_id,
             start |-> Max({remaining[j].start - cumulative, 0})]])

\* The accumulator after a track has been given its segment_times
Record(acc, track_idx, segment_times, stat, warnings) ==
    [tt |-> [acc.tt EXCEPT ![track_idx].segment_times = segment_times],
     stats |-> Append(acc.stats, stat),
     warnings |-> acc.warnings \o warnings,
     estimated |-> acc.estimated \cup {track_idx}]

\* The `for (track_idx, track_duration) in &track_durations` loop; n is the
\* number of segments the k-th track takes
RECURSIVE SplitLoop(_, _, _, _, _, _)
SplitTake(track_durations, k, cumulative, remaining, total_weight, acc, n) ==
    SplitLoop(track_durations, k + 1, cumulative + track_durations[k][2],
              SubSeq(remaining, n + 1, Len(remaining)), total_weight,
              Record(acc, track_durations[k][1],
                     Renormalized(remaining, n, cumulative),
                     TrackStat(track_durations[k][1], track_durations[k][2], n,
                               total_weight, Len(track_durations)),
                     <<>>))

SplitLoop(track_durations, k, cumulative, remaining, total_weight, acc) ==
    IF k > Len(track_durations) THEN acc
    ELSE SplitTake(track_durations, k, cumulative, remaining, total_weight, acc,
                   TakeCount(remaining, cumulative + track_durations[k][2]))

\* Single-track number: all the segments of the track's numbers over its duration
SingleTrack(acc, track_idx, duration, coll) ==
    IF track_idx \in acc.estimated THEN acc
    ELSE Record(acc, track_idx, distribute_segments(coll.segments, duration),
                TrackStat(track_idx, duration,
                          Len(distribute_segments(coll.segments, duration)),
                          TotalWeight(coll.segments), 1),
                coll.warnings)

\* Multi-track number: pool the durations, distribute, split
PooledTracks(acc, track_durations, segments) ==
    IF \E k \in 1..Len(track_durations) : track_durations[k][1] \in acc.estimated
    THEN acc
    ELSE SplitLoop(track_durations, 1, 0,
                   distribute_segments(segments,
                       SumSeq([k \in 1..Len(track_durations) |-> track_durations[k][2]])),
                   TotalWeight(segments), acc)

NumberTracks(b, ov, acc, number, track_durations) ==
    IF number.segments = <<>> THEN acc
    ELSE IF track_durations = <<>> THEN acc
    ELSE IF Len(track_durations) = 1
    THEN SingleTrack(acc, track_durations[1][1], track_durations[1][2],
                     collect_track_segments(b, ov.track_timings[track_durations[1][1]]))
    ELSE PooledTracks(acc, track_durations, collect_number_segments(number))

\* The body of `for (number_id, track_indices) in &number_to_tracks`
NumberStep(b, ov, acc, number_id) ==
    IF ~IsSome(find_number(b, number_id))
    THEN [acc EXCEPT !.warnings =
             Append(@, [kind |-> "number not found", id |-> number_id])]
    ELSE NumberTracks(b, ov, acc, find_number(b, number_id)[1],
                      Flatten(TrackDurations(ov, TrackRefs(ov, number_id))))

RECURSIVE NumbersLoop(_, _, _, _)
NumbersLoop(b, ov, order, acc) ==
    IF order = <<>> THEN acc
    ELSE NumbersLoop(b, ov, Tail(order), NumberStep(b, ov, acc, Head(order)))

\* The iteration orders a HashMap over the keys may produce
KeyOrders(keys) ==
    { o \in [1..Cardinality(keys) -> keys] : \A x \in keys : \E k \in DOMAIN o : o[k] = x }

NumberResult(ov, acc) ==
    [overlay |-> [ov EXCEPT !.track_timings = acc.tt],
     stats |-> acc.stats,
     warnings |-> acc.warnings]

\* estimate_by_numbers, for one iteration order of number_to_tracks
estimate_by_numbers(b, ov, order) ==
    NumberResult(ov, NumbersLoop(b, ov, order,
                     [tt |-> ov.track_timings, stats |-> <<>>, warnings |-> <<>>,
                      estimated |-> {}]))

has_boundaries(ov) ==
    \E i \in 1..Len(ov.track_timings) : IsSome(ov.track_timings[i].start_segment_id)

\* estimate_timings, for one iteration order of the number map
estimate_timings(b, ov, order) ==
    IF has_boundaries(ov) THEN estimate_with_boundaries(b, ov)
    ELSE estimate_by_numbers(b, ov, order)

---------------------------------------------------------------------------
(* resolve.rs: resolve_anchors *)

\* search_nids: the track's own number ids, then the previous track's
SearchNids(ov, i) ==
    Range(ov.track_timings[i].number_ids)
    \cup (IF i > 1 THEN Range(ov.track_timings[i - 1].number_ids) ELSE {})

\* AnchorResolution of track i
Resolution(i, anchors, resolved_segment_id, match_method) ==
    [track |-> i, anchors |-> anchors,
     resolved_segment_id |-> resolved_segment_id, match_method |-> match_method]

\* A track with anchors: the outcome of matching its first anchor
Matched(i, anchors, matched) ==
    IF IsSome(matched)
    THEN [start |-> Some(matched[1][1]),
          resolution |-> Resolution(i, anchors, Some(matched[1][1]), Some(matched[1][2])),
          warnings |-> <<>>]
    ELSE [start |-> None,
          resolution |-> Resolution(i, anchors, None, None),
          warnings |-> <<[kind |-> "no match", track |-> i, anchor |-> anchors[1]]>>]

\* A track without anchors: the first segment of its first number
Fallback(i, fallback) ==
    [start |-> fallback,
     resolution |-> Resolution(i, <<>>, fallback, None),
     warnings |-> <<>>]

\* The first segment that has a text
FirstTextSegmentId(n) ==
    IF IsSome(n) /\ \E k \in 1..Len(n[1].segments) : IsSome(n[1].segments[k].text)
    THEN Some(n[1].segments[Min({ k \in 1..Len(n[1].segments) :
                                    IsSome(n[1].segments[k].text) })].id)
    ELSE None

\* base.find_number(nid).and_then(|n| n.segments.first()).map(|s| s.id)
FirstSegmentId(n) ==
    IF IsSome(n) /\ n[1].segments # <<>> THEN Some(n[1].segments[1].id) ELSE None

ResolveUnset(b, ov, i, candidates, anchors) ==
    IF anchors = <<>>
    THEN Fallback(i, FirstSegmentId(IF ov.track_timings[i].number_ids = <<>> THEN None
                                    ELSE find_number(b, ov.track_timings[i].number_ids[1])))
    ELSE Matched(i, anchors, match_anchor(anchors[1], SearchNids(ov, i), candidates))

\* Every track resolved from its title
ResolveTrackAnew(b, ov, i, candidates) ==
    ResolveUnset(b, ov, i, candidates, extract_anchors(ov.track_timings[i].track_title))

\* One iteration of the track loop:
\* [start: Option<segment id to set>, resolution, warnings]
ResolveTrack(b, ov, i, candidates) ==
    IF IsSome(ov.track_timings[i].start_segment_id)
    THEN [start |-> None,
          resolution |-> Resolution(i, extract_anchors(ov.track_timings[i].track_title),
                                    ov.track_timings[i].start_segment_id, Some("Manual")),
          warnings |-> <<>>]
    ELSE ResolveUnset(b, ov, i, candidates,
                      extract_anchors(ov.track_timings[i].track_title))

\* The start of every track replaced by the outcome of its iteration
ResolveResultOverwriting(ov, per) ==
    [overlay |-> [ov EXCEPT !.track_timings =
                     [i \in 1..Len(ov.track_timings) |->
                         [ov.track_timings[i] EXCEPT !.start_segment_id = per[i].start]]],
     resolutions |-> [i \in 1..Len(per) |-> per[i].resolution],
     warnings |-> Flatten([i \in 1..Len(per) |-> per[i].warnings])]

ResolveResult(ov, per) ==
    [overlay |-> [ov EXCEPT !.track_timings =
                     [i \in 1..Len(ov.track_timings) |->
                         IF IsSome(per[i].start)
                         THEN [ov.track_timings[i] EXCEPT !.start_segment_id = per[i].start]
                         ELSE ov.track_timings[i]]],
     resolutions |-> [i \in 1..Len(per) |-> per[i].resolution],
     warnings |-> Flatten([i \in 1..Len(per) |-> per[i].warnings])]

ResolveTracks(b, ov, candidates) ==
    ResolveResult(ov, Vec([i \in 1..Len(ov.track_timings) |->
                              ResolveTrack(b, ov, i, candidates)]))

resolve_anchors(b, ov) == ResolveTracks(b, ov, build_segment_index(b))

---------------------------------------------------------------------------
(* The distribution law on its own: distribute_segments applied to drawn inputs *)

\* Longest segment list handed to distribute_segments
MaxSegs == 3

\* Weights in quarter units: 0, 0.25, 0.5, 1, 3, 9
DWeights == {0, 1, 2, 4, 12, 36}

\* Durations in ms, among them a negative, zero, and the 125 s of the scenario
DDurations == {0 - 1000, 0, 1, 7, 100000, 125000}

InitDistribute ==
    /\ pc = "init"
    /\ d_segments \in { [i \in 1..Len(w) |-> [id |-> i, weight |-> w[i]]] :
                          w \in SeqsUpTo(DWeights, 0, MaxSegs) }
    /\ d_duration \in DDurations
    /\ d_times = <<>>
    /\ base = <<>> /\ overlay = <<>> /\ est = <<>> /\ res = <<>>
    /\ it_elements = <<>> /\ en_elements = <<>> /\ parsed = <<>>
    /\ orig_segs = <<>> /\ trans_segs = <<>> /\ aligned = <<>>
    /\ validation = <<>>
    /\ merged = <<>> /\ output = <<>>
    /\ c_title = <<>> /\ c_anchors = <<>>

Distribute ==
    /\ pc = "init"
    /\ d_times' = distribute_segments(d_segments, d_duration)
    /\ pc' = "distributed"
    /\ UNCHANGED <<classifyVars, d_segments, d_duration, timingVars, parseVars, alignVars,
                   validation, mergeVars>>

NextDistribute == Distribute

SpecDistribute == InitDistribute /\ [][NextDistribute]_vars

---------------------------------------------------------------------------
(* C1: the distribution law *)

\* The weight of the segments of d_segments before position i
WeightBefore(i) == SumSeq([k \in 1..(i - 1) |-> d_segments[k].weight])

\* x is D * before / W rounded to the nearest millisecond: |x*W - D*before| <= W/2
NearestMs(x, D, before, W) ==
    /\ 2 * (x * W - D * before) <= W
    /\ 2 * (D * before - x * W) <= W

\* C1: for a non-empty segment list of positive total weight W and a duration
\* D > 0, distribute_segments returns one SegmentTime per segment, in the same
\* order, with start(i) = D * (weight before i) / W rounded to the nearest
\* millisecond; the first start is 0 and the starts never decrease.
C1_DistributionLaw ==
    (/\ pc = "distributed"
     /\ d_segments # <<>>
     /\ d_duration > 0
     /\ WeightBefore(Len(d_segments) + 1) > 0)
    => /\ Len(d_times) = Len(d_segments)
       /\ \A i \in 1..Len(d_segments) :
            /\ d_times[i].segment_id = d_segments[i].id
            /\ NearestMs(d_times[i].start, d_duration, WeightBefore(i),
                         WeightBefore(Len(d_segments) + 1))
       /\ d_times[1].start = 0
       /\ \A i \in 1..(Len(d_segments) - 1) : d_times[i].start <= d_times[i + 1].start

\* Scenario 3: weights 3, 9, 0.5 over 125 s give the starts 0, 30, 120
C1_Witness ==
    /\ pc = "distributed"
    /\ d_duration = 125000
    /\ [i \in 1..Len(d_segments) |-> d_segments[i].weight] = <<12, 36, 2>>
    /\ [i \in 1..Len(d_times) |-> d_times[i].start] = <<0, 30000, 120000>>

---------------------------------------------------------------------------
(* The estimator and the resolver on drawn base librettos and overlays *)

Seg(id, ty, text) == [id |-> id, segment_type |-> ty, text |-> text]

\* Two numbers as in the estimator's tests: the third segment of no-1 is
\* the recitative that a later track may start with
BaseA ==
    [numbers |-> <<
        [id |-> "no-1", act |-> "1", segments |-> <<
            Seg("no-1-001", "Sung", Some(<<"S","e"," ","a"," ","c","a","s","o"," ","m","a","d","a","m","a">>)),
            Seg("no-1-002", "Sung", Some(<<"O","r"," ","b","e","n","e">>)),
            Seg("no-1-003", "Sung", Some(<<"B","r","a","v","o",","," ","s","i","g","n","o","r"," ","p","a","d","r","o","n","e","!","LF","O","r","a"," ","i","n","c","o","m","i","n","c","i","o">>)) >>],
        [id |-> "no-2", act |-> "1", segments |-> <<
            Seg("no-2-001", "Sung", Some(<<"S","e"," ","v","u","o","l"," ","b","a","l","l","a","r","e">>)),
            Seg("no-2-002", "Direction", None) >>] >>]

\* Numbers in another order, one of them without segments
BaseB ==
    [numbers |-> <<
        [id |-> "no-2", act |-> "1", segments |-> <<
            Seg("no-2-001", "Sung", Some(<<"S","e"," ","v","u","o","l"," ","b","a","l","l","a","r","e">>)),
            Seg("no-2-002", "Sung", Some(<<"s","i","g","n","o","r"," ","c","o","n","t","i","n","o">>)) >>],
        [id |-> "no-3", act |-> "2", segments |-> << >>],
        [id |-> "no-1", act |-> "2", segments |-> <<
            Seg("no-1-001", "Spoken", Some(<<"B","r","a","v","o">>)),
            Seg("no-1-002", "Interlude", Some(<<"l","a"," ","l","a"," ","l","a">>)),
            Seg("no-1-003", "Sung", None) >>] >>]

Bases == {BaseA, BaseB}

TitlePlain == <<"T","r","a","c","k">>

TitleRecit == <<"R","e","c","i","t","a","t","i","v","o"," ","DQ","B","r","a","v","o",","," ","s","i","g","n","o","r","DQ",";"," ","C","a","v","a","t","i","n","a"," ","DQ","S","e"," ","v","u","o","l","DQ">>

Track(title, dur, nids, start, times) ==
    [track_title |-> title, duration_seconds |-> dur, number_ids |-> nids,
     start_segment_id |-> start, segment_times |-> times]

\* Tracks without start_segment_id and without times
TracksByNumber ==
    { Track(TitlePlain, Some(50000), <<"no-1">>, None, <<>>),
      Track(TitlePlain, Some(100000), <<"no-1">>, None, <<>>),
      Track(TitlePlain, Some(100000), <<"no-1", "no-2">>, None, <<>>),
      Track(TitlePlain, None, <<"no-2">>, None, <<>>),
      Track(TitleRecit, Some(100000), <<"no-2">>, None, <<>>),
      Track(TitlePlain, Some(100000), <<"no-9">>, None, <<>>) }

\* Tracks whose segment_times are already populated
TracksPopulated ==
    { Track(TitlePlain, Some(100000), <<"no-1">>, s,
            <<[segment_id |-> "no-1-002", start |-> 5000]>>) :
        s \in {None, Some("no-1-003")} }

\* Tracks with a start_segment_id
TracksByBoundary ==
    { Track(TitlePlain, Some(100000), <<"no-1">>, Some("no-1-001"), <<>>),
      Track(TitleRecit, Some(100000), <<"no-1", "no-2">>, Some("no-1-003"), <<>>),
      Track(TitlePlain, Some(100000), <<"no-2">>, Some("no-2-001"), <<>>),
      Track(TitlePlain, Some(0), <<"no-1">>, Some("no-1-002"), <<>>),
      Track(TitlePlain, Some(100000), <<"no-1">>, Some("no-9-001"), <<>>) }

TrackOptions == TracksByNumber \cup TracksPopulated \cup TracksByBoundary

\* Most tracks of an overlay
MaxTracks == 2

Overlays ==
    { [track_timings |-> tt, omitted_numbers |-> <<>>] :
        tt \in SeqsUpTo(TrackOptions, 0, MaxTracks) }

Init ==
    /\ pc = "init"
    /\ base \in Bases
    /\ overlay \in Overlays
    /\ est = <<>> /\ res = <<>>
    /\ d_segments = <<>> /\ d_duration = 0 /\ d_times = <<>>
    /\ it_elements = <<>> /\ en_elements = <<>> /\ parsed = <<>>
    /\ orig_segs = <<>> /\ trans_segs = <<>> /\ aligned = <<>>
    /\ validation = <<>>
    /\ merged = <<>> /\ output = <<>>
    /\ c_title = <<>> /\ c_anchors = <<>>

\* timing estimate: estimate_timings(base, overlay); in number mode the
\* iteration order of the number map is any order of its keys
Estimate ==
    /\ pc = "init"
    /\ \E order \in (IF has_boundaries(overlay) THEN {<<>>}
                     ELSE KeyOrders(covered_number_ids(overlay))) :
          est' = estimate_timings(base, overlay, order)
    /\ pc' = "estimated"
    /\ UNCHANGED <<classifyVars, base, overlay, res, distributeVars, parseVars, alignVars,
                   validation, mergeVars>>

\* resolve_anchors(base, overlay)
Resolve ==
    /\ pc = "init"
    /\ res' = resolve_anchors(base, overlay)
    /\ pc' = "resolved"
    /\ UNCHANGED <<classifyVars, base, overlay, est, distributeVars, parseVars, alignVars,
                   validation, mergeVars>>

Next == Estimate \/ Resolve

Spec == Init /\ [][Next]_vars

---------------------------------------------------------------------------
(* C2: the ranges of boundary mode.  The drawn bases have unique segment ids. *)

\* The ids of the global segment list: the segments of every number that some
\* track of the input overlay references, in base order
GlobalIds ==
    Flatten([n \in 1..Len(base.numbers) |->
                IF \E i \in 1..Len(overlay.track_timings) :
                      Contains(overlay.track_timings[i].number_ids, base.numbers[n].id)
                THEN [k \in 1..Len(base.numbers[n].segments) |->
                         base.numbers[n].segments[k].id]
                ELSE <<>>])

\* The 1-based position of an id of the global list
PositionIn(ids, sid) == CHOOSE p \in 1..Len(ids) : ids[p] = sid

\* Track i of the input has a start_segment_id that is in the global list
HasResolvedStart(i) ==
    /\ IsSome(overlay.track_timings[i].start_segment_id)
    /\ Contains(GlobalIds, overlay.track_timings[i].start_segment_id[1])

StartPosition(i) == PositionIn(GlobalIds, overlay.track_timings[i].start_segment_id[1])

\* The position where the range of track i ends: the start of the next later
\* track with a resolved start, or one past the list for the last such track
EndPosition(i) ==
    IF \E j \in (i + 1)..Len(overlay.track_timings) : HasResolvedStart(j)
    THEN StartPosition(Min({ j \in (i + 1)..Len(overlay.track_timings) : HasResolvedStart(j) }))
    ELSE Len(GlobalIds) + 1

\* The segment ids timed in track i of the estimator's result
TimedIds(i) ==
    [k \in 1..Len(est.overlay.track_timings[i].segment_times) |->
        est.overlay.track_timings[i].segment_times[k].segment_id]

\* Track i receives exactly the segments from its start up to the next start,
\* and the track before it, when estimated, none at or after that start
ReceivesItsRange(i) ==
    /\ TimedIds(i) = SubSeq(GlobalIds, StartPosition(i), EndPosition(i) - 1)
    /\ (i > 1 /\ overlay.track_timings[i - 1].segment_times = <<>>)
       => \A k \in 1..Len(TimedIds(i - 1)) :
             \A p \in StartPosition(i)..Len(GlobalIds) : TimedIds(i - 1)[k] # GlobalIds[p]

---------------------------------------------------------------------------
(* C3: pooling in number mode *)

\* The tracks of the input overlay that reference a number
Referencing(number_id) ==
    { i \in 1..Len(overlay.track_timings) :
        Contains(overlay.track_timings[i].number_ids, number_id) }

DurationOf(i) == overlay.track_timings[i].duration_seconds[1]

\* c_t: the durations of the tracks of R before track t, added up
PoolOffset(R, t) == SumSeq([i \in 1..(t - 1) |-> IF i \in R THEN DurationOf(i) ELSE 0])

\* The number's segments distributed over the pooled duration
PooledTimes(number, R) ==
    distribute_segments(collect_number_segments(number),
                        PoolOffset(R, Len(overlay.track_timings) + 1))

\* The times of track t in the estimator's result
TimesOf(t) == est.overlay.track_timings[t].segment_times

\* Every pooled segment is in the track whose window holds its pooled start,
\* renormalized, and in no other track; each track keeps the pooled order
SplitAsStated(R, pooled) ==
    /\ \A s \in 1..Len(pooled) :
          /\ \A t \in R :
                (/\ PoolOffset(R, t) <= pooled[s].start
                 /\ pooled[s].start < PoolOffset(R, t) + DurationOf(t))
                => \E k \in 1..Len(TimesOf(t)) :
                      TimesOf(t)[k] = [segment_id |-> pooled[s].segment_id,
                                       start |-> pooled[s].start - PoolOffset(R, t)]
          /\ Cardinality({ tk \in (1..Len(overlay.track_timings)) \X (1..Len(pooled)) :
                             /\ tk[2] <= Len(TimesOf(tk[1]))
                             /\ TimesOf(tk[1])[tk[2]].segment_id = pooled[s].segment_id }) = 1
    /\ \A t \in R : \A k \in 1..(Len(TimesOf(t)) - 1) :
          \E s1, s2 \in 1..Len(pooled) :
             /\ s1 < s2
             /\ pooled[s1].segment_id = TimesOf(t)[k].segment_id
             /\ pooled[s2].segment_id = TimesOf(t)[k + 1].segment_id

PooledAsStated(number, R) ==
    (/\ Cardinality(R) >= 2
     /\ \A t \in R : /\ IsSome(overlay.track_timings[t].duration_seconds)
                     /\ overlay.track_timings[t].segment_times = <<>>)
    => SplitAsStated(R, PooledTimes(number, R))

\* C3: in number mode, a number referenced by two or more tracks, all with a
\* duration and empty segment_times, has its segments distributed over the sum
\* of the durations; each segment whose pooled start lies in the window
\* [c_j, c_j + d_j) of track j is assigned to track j with start p - c_j, the
\* order is kept, and each segment is assigned to exactly one track.
C3_NumberPooling ==
    (pc = "estimated" /\ ~has_boundaries(overlay))
    => \A n \in 1..Len(base.numbers) :
          PooledAsStated(base.numbers[n], Referencing(base.numbers[n].id))

---------------------------------------------------------------------------
(* C4: populated tracks are left alone *)

\* C4: in both modes a track whose segment_times is non-empty in the input
\* overlay has the same segment_times in the overlay estimate_timings returns.
C4_PopulatedUnchanged ==
    pc = "estimated"
    => \A i \in 1..Len(overlay.track_timings) :
          overlay.track_timings[i].segment_times # <<>>
          => est.overlay.track_timings[i].segment_times
                = overlay.track_timings[i].segment_times

\* A populated track kept next to a track that the estimator filled
C4_Witness ==
    /\ pc = "estimated"
    /\ Len(overlay.track_timings) = 2
    /\ overlay.track_timings[1].segment_times # <<>>
    /\ est.overlay.track_timings[1].segment_times = overlay.track_timings[1].segment_times
    /\ overlay.track_timings[2].segment_times = <<>>
    /\ est.overlay.track_timings[2].segment_times # <<>>

---------------------------------------------------------------------------
(* C5: the frame of estimate_timings and resolve_anchors *)

\* The result has the same tracks, each differing at most in segment_times,
\* and only where the input had none
EstimateFrame(ov, result) ==
    /\ result.omitted_numbers = ov.omitted_numbers
    /\ Len(result.track_timings) = Len(ov.track_timings)
    /\ \A i \in 1..Len(ov.track_timings) :
          /\ [result.track_timings[i] EXCEPT !.segment_times = <<>>]
                = [ov.track_timings[i] EXCEPT !.segment_times = <<>>]
          /\ result.track_timings[i].segment_times # ov.track_timings[i].segment_times
             => ov.track_timings[i].segment_times = <<>>

\* The result has the same tracks, each differing at most in
\* start_segment_id, and only where the input had none
ResolveFrame(ov, result) ==
    /\ result.omitted_numbers = ov.omitted_numbers
    /\ Len(result.track_timings) = Len(ov.track_timings)
    /\ \A i \in 1..Len(ov.track_timings) :
          /\ [result.track_timings[i] EXCEPT !.start_segment_id = None]
                = [ov.track_timings[i] EXCEPT !.start_segment_id = None]
          /\ result.track_timings[i].start_segment_id # ov.track_timings[i].start_segment_id
             => ov.track_timings[i].start_segment_id = None

\* C5: estimate_timings and resolve_anchors leave the caller's overlay (and
\* base) as they were and return a copy with the same tracks in the same
\* order, differing only in the segment_times of tracks that had none
\* (estimate_timings) or in the start_segment_id of tracks that had none
\* (resolve_anchors).
C5_Frame ==
    [][/\ overlay' = overlay
       /\ base' = base
       /\ pc' = "estimated" => EstimateFrame(overlay, est'.overlay)
       /\ pc' = "resolved" => ResolveFrame(overlay, res'.overlay)]_vars

\* The resolver has set a start_segment_id and kept a manual one
C5_Witness ==
    /\ pc = "resolved"
    /\ \E i, j \in 1..Len(overlay.track_timings) :
          /\ overlay.track_timings[i].start_segment_id = None
          /\ res.overlay.track_timings[i].start_segment_id # None
          /\ overlay.track_timings[j].start_segment_id # None
          /\ res.overlay.track_timings[j] = overlay.track_timings[j]

---------------------------------------------------------------------------
(* libretto-parse: the classifier.  A ContentElement is [kind, text], kind  *)
(* one of ActHeader, NumberLabel, Character, Direction, Text, BlankLine;    *)
(* ids are text, built character by character as format! builds them.       *)

Digits == <<"0", "1", "2", "3", "4", "5", "6", "7", "8", "9">>

IsDigit(c) == \E k \in 1..Len(Digits) : Digits[k] = c

\* char::is_alphanumeric on the characters of the model
IsAlphanumeric(c) ==
    \/ IsDigit(c)
    \/ \E k \in 1..Len(LowerLetters) : LowerLetters[k] = c \/ UpperLetters[k] = c
    \/ \E k \in 1..Len(Accented) : Accented[k] = c

UpperChar(c) ==
    IF \E k \in 1..Len(LowerLetters) : LowerLetters[k] = c
    THEN UpperLetters[CHOOSE k \in 1..Len(LowerLetters) : LowerLetters[k] = c]
    ELSE c

\* str::to_uppercase
ToUpper(s) == Vec([i \in 1..Len(s) |-> UpperChar(s[i])])

\* str::to_lowercase, evaluated
Lower(s) == Vec(ToLower(s))

\* The first position >= from that holds no whitespace (Len + 1 if none): \s*
SkipWhitespace(s, from) ==
    Min({ j \in from..Len(s) : ~IsWhitespace(s[j]) } \cup {Len(s) + 1})

\* The first position >= from that holds no digit (Len + 1 if none): \d*
SkipDigits(s, from) ==
    Min({ j \in from..Len(s) : ~IsDigit(s[j]) } \cup {Len(s) + 1})

\* The end of the line that position from is on: (.+) stops before a newline
LineEnd(s, from) ==
    Min({ j \in from..Len(s) : s[j] = "LF" } \cup {Len(s) + 1}) - 1

\* split_whitespace() of a slug source: the words, in order
RECURSIVE Words(_)
WordsFrom(s, start) ==
    IF start > Len(s) THEN <<>>
    ELSE <<SubSeq(s, start, Min({ j \in start..Len(s) : s[j] = " " } \cup {Len(s) + 1}) - 1)>>
         \o Words(SubSeq(s, Min({ j \in start..Len(s) : s[j] = " " } \cup {Len(s) + 1}),
                         Len(s)))

Words(s) == WordsFrom(s, Min({ j \in 1..Len(s) : s[j] # " " } \cup {Len(s) + 1}))

\* join("-")
RECURSIVE JoinDash(_)
JoinDash(words) ==
    IF words = <<>> THEN <<>>
    ELSE IF Len(words) = 1 THEN words[1]
    ELSE words[1] \o <<"-">> \o JoinDash(Tail(words))

\* chars().map(alphanumeric or ' ', else ' ').split_whitespace().join("-")
Slug(s) ==
    JoinDash(Words(Vec([i \in 1..Len(s) |->
                           IF IsAlphanumeric(s[i]) THEN s[i] ELSE " "])))

\* (?i)n[°o\.] at position i
NumeroAt(s, i) ==
    /\ i + 1 <= Len(s)
    /\ s[i] \in {"n", "N"}
    /\ s[i + 1] \in {"DEG", "o", "O", "."}

\* (?i)n[°o\.]\s*(\d+) at position i
NumeroDigitsAt(s, i) ==
    /\ NumeroAt(s, i)
    /\ SkipWhitespace(s, i + 2) <= Len(s)
    /\ IsDigit(s[SkipWhitespace(s, i + 2)])

\* The digits captured by (\d+) of a match at position i
NumeroDigits(s, i) ==
    SubSeq(s, SkipWhitespace(s, i + 2), SkipDigits(s, SkipWhitespace(s, i + 2)) - 1)

\* The position of the separator [:\-–] of a match at i
SeparatorPos(s, i) == SkipWhitespace(s, SkipDigits(s, SkipWhitespace(s, i + 2)))

\* (?i)n[°o\.]\s*(\d+)\s*[:\-–]\s*(.+) at position i
NumeroDescAt(s, i) ==
    /\ NumeroDigitsAt(s, i)
    /\ SeparatorPos(s, i) <= Len(s)
    /\ s[SeparatorPos(s, i)] \in {":", "-", "NDASH"}
    /\ SeparatorPos(s, i) + 1 <= Len(s)
    /\ \E q \in (SeparatorPos(s, i) + 1)..Len(s) :
          /\ s[q] # "LF"
          /\ \A w \in (SeparatorPos(s, i) + 1)..(q - 1) : IsWhitespace(s[w])

\* caps[2].trim(): \s* runs to the first character that is no whitespace and
\* (.+) from there to the end of that line; when only whitespace is left,
\* (.+) holds whitespace and the trimmed description is empty
NumeroDesc(s, i) ==
    IF SkipWhitespace(s, SeparatorPos(s, i) + 1) <= Len(s)
    THEN Trim(SubSeq(s, SkipWhitespace(s, SeparatorPos(s, i) + 1),
                     LineEnd(s, SkipWhitespace(s, SeparatorPos(s, i) + 1))))
    ELSE <<>>

\* (?i)(?:act|atto)\s+(\d+) at position i of the upper-cased header, the
\* keyword being kw
ActDigitsAt(t, i, kw) ==
    /\ MatchAt(t, kw, i)
    /\ SkipWhitespace(t, i + Len(kw)) > i + Len(kw)
    /\ SkipWhitespace(t, i + Len(kw)) <= Len(t)
    /\ IsDigit(t[SkipWhitespace(t, i + Len(kw))])

ActKeywordAt(t, i) == IF ActDigitsAt(t, i, <<"A","C","T">>) THEN <<"A","C","T">> ELSE <<"A","T","T","O">>

ActDigits(t, i, kw) ==
    SubSeq(t, SkipWhitespace(t, i + Len(kw)),
           SkipDigits(t, SkipWhitespace(t, i + Len(kw))) - 1)

\* The leftmost match of the numeric pattern
ActNumeric(t, hits) ==
    IF hits = {} THEN None
    ELSE Some(ActDigits(t, Min(hits), ActKeywordAt(t, Min(hits))))

ParseActUpper(t) ==
    IF ContainsSub(t, <<"P","R","I","M","O">>) \/ ContainsSub(t, <<"F","I","R","S","T">>) \/ ContainsSub(t, <<"O","N","E">>)
    THEN Some(<<"1">>)
    ELSE IF ContainsSub(t, <<"S","E","C","O","N","D","O">>) \/ ContainsSub(t, <<"S","E","C","O","N","D">>) \/ ContainsSub(t, <<"T","W","O">>)
    THEN Some(<<"2">>)
    ELSE IF ContainsSub(t, <<"T","E","R","Z","O">>) \/ ContainsSub(t, <<"T","H","I","R","D">>) \/ ContainsSub(t, <<"T","H","R","E","E">>)
    THEN Some(<<"3">>)
    ELSE IF ContainsSub(t, <<"Q","U","A","R","T","O">>) \/ ContainsSub(t, <<"F","O","U","R","T","H">>) \/ ContainsSub(t, <<"F","O","U","R">>)
    THEN Some(<<"4">>)
    ELSE IF ContainsSub(t, <<"Q","U","I","N","T","O">>) \/ ContainsSub(t, <<"F","I","F","T","H">>) \/ ContainsSub(t, <<"F","I","V","E">>)
    THEN Some(<<"5">>)
    ELSE ActNumeric(t, { i \in 1..Len(t) :
                           ActDigitsAt(t, i, <<"A","C","T">>) \/ ActDigitsAt(t, i, <<"A","T","T","O">>) })

parse_act_number(text) == ParseActUpper(ToUpper(Trim(text)))

ClassifyLower(lower) ==
    IF \/ ContainsSub(lower, <<"s","i","n","f","o","n","i","a">>) \/ ContainsSub(lower, <<"o","v","e","r","t","u","r","e">>)
       \/ ContainsSub(lower, <<"o","u","v","e","r","t","u","r","e">>)
    THEN "Overture"
    ELSE IF ContainsSub(lower, <<"f","i","n","a","l","e">>) THEN "Finale"
    ELSE IF ContainsSub(lower, <<"r","e","c","i","t","a","t","i","v","o">>) \/ ContainsSub(lower, <<"r","e","c","i","t","a","t","i","v","e">>)
    THEN (IF ContainsSub(lower, <<"a","r","i","a">>) THEN "Aria" ELSE "Recitative")
    ELSE IF ContainsSub(lower, <<"d","u","e","t","t","i","n","o">>) THEN "Duettino"
    ELSE IF ContainsSub(lower, <<"d","u","e","t","t","o">>) \/ ContainsSub(lower, <<"d","u","e","t">>) THEN "Duet"
    ELSE IF ContainsSub(lower, <<"t","e","r","z","e","t","t","o">>) \/ ContainsSub(lower, <<"t","r","i","o">>) THEN "Terzetto"
    ELSE IF ContainsSub(lower, <<"q","u","a","r","t","e","t","t","o">>) \/ ContainsSub(lower, <<"q","u","a","r","t","e","t">>) THEN "Quartet"
    ELSE IF ContainsSub(lower, <<"q","u","i","n","t","e","t","t","o">>) \/ ContainsSub(lower, <<"q","u","i","n","t","e","t">>) THEN "Quintet"
    ELSE IF ContainsSub(lower, <<"s","e","s","t","e","t","t","o">>) \/ ContainsSub(lower, <<"s","e","x","t","e","t">>) THEN "Sextet"
    ELSE IF ContainsSub(lower, <<"c","a","v","a","t","i","n","a">>) THEN "Cavatina"
    ELSE IF ContainsSub(lower, <<"c","a","n","z","o","n","e">>) THEN "Canzone"
    ELSE IF ContainsSub(lower, <<"c","o","r","o">>) \/ ContainsSub(lower, <<"c","h","o","r","u","s">>) THEN "Chorus"
    ELSE IF ContainsSub(lower, <<"a","r","i","a">>) THEN "Aria"
    ELSE "Other"

classify_number(label) == ClassifyLower(Lower(label))

\* format!("no-{num}-{desc_slug}") for the leftmost match of the first pattern
IdWithDesc(label, i) ==
    <<"n","o","-">> \o NumeroDigits(label, i) \o <<"-">> \o Slug(Lower(NumeroDesc(label, i)))

\* format!("no-{}") for the leftmost match of the second pattern
IdWithNumber(label, i) == <<"n","o","-">> \o NumeroDigits(label, i)

\* The fallback: the slug of the whole label, or number-act{act}
IdFromSlug(slug, act) == IF slug = <<>> THEN <<"n","u","m","b","e","r","-","a","c","t">> \o act ELSE slug

GenerateFrom(label, act, with_desc, with_number) ==
    IF with_desc # {} THEN IdWithDesc(label, Min(with_desc))
    ELSE IF with_number # {} THEN IdWithNumber(label, Min(with_number))
    ELSE IdFromSlug(Slug(Lower(label)), act)

generate_id(label, act, number_type) ==
    IF number_type = "Overture" THEN <<"o","v","e","r","t","u","r","e">>
    ELSE GenerateFrom(label, act,
                      { i \in 1..Len(label) : NumeroDescAt(label, i) },
                      { i \in 1..Len(label) : NumeroDigitsAt(label, i) })

NoiseKeywords ==
    { <<"a","r","i","a">>, <<"d","u","e","t">>, <<"t","e","r","z","e","t">>, <<"q","u","a","r","t","e","t">>, <<"q","u","i","n","t","e","t">>, <<"s","e","x","t","e","t">>, <<"c","a","v","a","t","i","n","a">>,
      <<"c","a","n","z","o","n","e">>, <<"c","o","r","o">>, <<"c","h","o","r","u","s">>, <<"f","i","n","a","l","e">>, <<"r","e","c","i","t","a","t","i","v">>, <<"o","v","e","r","t","u","r","e">>,
      <<"s","i","n","f","o","n","i","a">>, <<"o","u","v","e","r","t","u","r","e">>, <<"d","u","e","t","t","i","n","o">> }

NoiseLower(text, lower) ==
    \/ StartsWith(lower, <<"s","y","m","p","h","o","n","y">>)
    \/ StartsWith(lower, <<"f","i","n"," ">>)
    \/ lower = <<"f","i","n","e">>
    \/ /\ ~\E i \in 1..Len(text) : IsDigit(text[i])
       /\ ~\E kw \in NoiseKeywords : ContainsSub(lower, kw)
       /\ ~StartsWith(lower, <<"n","DEG">>)
       /\ ~StartsWith(lower, <<"n","o",".">>)

is_noise_label(text) == NoiseLower(text, Lower(text))

\* is_cast_header
CastHeaders == { <<"p","e","r","s","o","n","a","g","g","i">>, <<"c","a","s","t">>, <<"c","h","a","r","a","c","t","e","r","s">>, <<"d","r","a","m","a","t","i","s"," ","p","e","r","s","o","n","a","e">> }

is_cast_header(text) == Lower(Trim(text)) \in CastHeaders

\* The first position >= from whose element is none of the kinds (Len + 1 if none)
SkipKinds(elements, from, kinds) ==
    Min({ j \in from..Len(elements) : elements[j].kind \notin kinds }
        \cup {Len(elements) + 1})

\* The end index one past the element the cast section stops at
CastEndPastStop(elements, first) ==
    IF first > Len(elements) THEN Len(elements)
    ELSE IF elements[first].kind = "ActHeader" /\ is_cast_header(elements[first].text)
    THEN SkipKinds(elements, first + 1, {"BlankLine", "Character", "Text"})
    ELSE 0

\* extract_cast(elements).end_index (0-based: the number of elements consumed).
\* The cast members are CastMembers below.
CastEnd(elements, first) ==
    IF first > Len(elements) THEN Len(elements)
    ELSE IF elements[first].kind = "ActHeader" /\ is_cast_header(elements[first].text)
    THEN SkipKinds(elements, first + 1, {"BlankLine", "Character", "Text"}) - 1
    ELSE 0

extract_cast(elements) == CastEnd(elements, SkipKinds(elements, 1, {"BlankLine"}))

\* parse_character_entry: an entry for every Character that is not blank
\* (the split into name and voice type leaves the number of members alone)
parse_character_entry(text) ==
    IF Trim(text) = <<>> THEN None ELSE Some([from |-> "Character", entry |-> Trim(text)])

\* ^(.+?)\s*[-\u2013]\s*(\S.*)$ with the dash at position p: something that is
\* not a line break before it, something that is not white after it, and no
\* line break inside either
DashAt(t, p) ==
    /\ t[p] \in {"-", "NDASH"}
    /\ p > 1 /\ p < Len(t)
    /\ \A a \in 1..(p - 1) : t[a] = "LF" => \A b \in a..(p - 1) : IsWhitespace(t[b])
    /\ \A a \in (p + 1)..Len(t) :
          t[a] = "LF" => \A b \in (p + 1)..a : IsWhitespace(t[b])

\* parse_text_entry on the trimmed text: an entry when it has the dash of a
\* voice type or starts with an upper-case letter
ParseTrimmedEntry(t) ==
    IF t = <<>> THEN None
    ELSE IF \E p \in 1..Len(t) : DashAt(t, p) THEN Some([from |-> "Text", entry |-> t])
    ELSE IF t[1] \in Range(UpperLetters) THEN Some([from |-> "Text", entry |-> t])
    ELSE None

parse_text_entry(text) == ParseTrimmedEntry(Trim(text))

\* extract_cast(elements).members: the entries of the elements the loop has
\* passed when it stops at end_index (a Text that is no entry goes into the description of the member
\* before it)
CastMembers(elements, end_index) ==
    Flatten([j \in 1..end_index |->
                IF j > Len(elements) THEN <<>>
                ELSE IF elements[j].kind = "Character"
                THEN parse_character_entry(elements[j].text)
                ELSE IF elements[j].kind = "Text" THEN parse_text_entry(elements[j].text)
                ELSE <<>>])

\* The decimal digits of n, as format!("{}") writes them
RECURSIVE Decimal(_)
Decimal(n) ==
    IF n < 10 THEN <<Digits[n + 1]>>
    ELSE Decimal(n \div 10) \o <<Digits[(n % 10) + 1]>>

\* format!("{:03}"): at least three digits, padded with zeros
ZeroPad(digits) ==
    IF Len(digits) >= 3 THEN digits
    ELSE IF Len(digits) = 2 THEN <<"0">> \o digits
    ELSE <<"0", "0">> \o digits

Pad3(n) == ZeroPad(Decimal(n))

RawNumber(label, id, number_type, act) ==
    [label |-> label, id |-> id, number_type |-> number_type, act |-> act,
     scene |-> None, elements |-> <<>>]

\* ActHeader: an act number replaces current_act, other headers are ignored
ActStep(st, act_num) ==
    IF IsSome(act_num) THEN [st EXCEPT !.current_act = act_num[1]] ELSE st

\* NumberLabel that is no noise: a new block
LabelStep(st, text, number_type) ==
    [st EXCEPT !.numbers =
        Append(st.numbers,
               RawNumber(text, generate_id(text, st.current_act, number_type),
                         number_type, st.current_act))]

\* The id of the implicit recitative
ImplicitId(current_act, recit_counter) ==
    IF current_act = <<>> THEN <<"r","e","c","-">> \o Decimal(recit_counter)
    ELSE <<"r","e","c","-">> \o current_act \o <<LowerLetters[recit_counter]>>

\* Content before the first number: an implicit recitative that holds it
ImplicitStep(st, elem) ==
    [numbers |-> <<[label |-> <<"R","e","c","i","t","a","t","i","v","o">>,
                    id |-> ImplicitId(st.current_act, st.recit_counter + 1),
                    number_type |-> "Recitative", act |-> st.current_act,
                    scene |-> None, elements |-> <<elem>>]>>,
     current_act |-> st.current_act,
     recit_counter |-> st.recit_counter + 1]

\* numbers.last_mut().unwrap().elements.push(other.clone())
PushElement(st, elem) ==
    [st EXCEPT !.numbers[Len(st.numbers)].elements =
        Append(st.numbers[Len(st.numbers)].elements, elem)]

\* One iteration of `for elem in elements`
NumbersStep(st, elem) ==
    IF elem.kind = "ActHeader" THEN ActStep(st, parse_act_number(elem.text))
    ELSE IF elem.kind = "NumberLabel"
    THEN (IF is_noise_label(elem.text) THEN st
          ELSE LabelStep(st, elem.text, classify_number(elem.text)))
    ELSE IF st.numbers = <<>>
    THEN (IF elem.kind = "BlankLine" THEN st ELSE ImplicitStep(st, elem))
    ELSE PushElement(st, elem)

RECURSIVE NumbersScan(_, _)
NumbersScan(st, elements) ==
    IF elements = <<>> THEN st
    ELSE NumbersScan(NumbersStep(st, Head(elements)), Tail(elements))

\* Every block kept
RetainedAll(numbers) == numbers

\* numbers.retain(|n| !n.elements.is_empty() || n.number_type == Overture)
Retained(numbers) ==
    SelectSeq(numbers, LAMBDA n : n.elements # <<>> \/ n.number_type = "Overture")

split_into_numbers(elements) ==
    Retained(NumbersScan([numbers |-> <<>>, current_act |-> <<>>, recit_counter |-> 0],
                         elements).numbers)

Segment(id, segment_type, character, text, direction) ==
    [id |-> id, segment_type |-> segment_type, character |-> character,
     text |-> text, translation |-> None, direction |-> direction, group |-> None]

\* format!("{}-{:03}", number.id, seq)
SegmentId(number_id, seq) == number_id \o <<"-">> \o Pad3(seq)

\* Blank as soon as the text opens with whitespace
IsBlankAtStart(text) == text = <<>> \/ IsWhitespace(text[1])

\* text.trim().is_empty()
IsBlank(text) == Trim(text) = <<>>

\* seq += 1; segments.push(Segment { .. })
NewSegment(st, number_id, segment_type, character, text, direction) ==
    [st EXCEPT !.segments =
                  Append(st.segments,
                         Segment(SegmentId(number_id, st.seq + 1), segment_type,
                                 character, text, direction)),
               !.seq = st.seq + 1]

\* Character: current_character is set and a segment of the character opened
CharacterStep(st, number_id, name) ==
    NewSegment([st EXCEPT !.current_character = Some(name)],
               number_id, "Sung", Some(name), None, None)

\* existing.push('\n'); existing.push_str(text), or Some(text)
AppendText(existing, text) ==
    IF IsSome(existing) THEN Some(existing[1] \o <<"LF">> \o text) ELSE Some(text)

\* existing.push(' '); existing.push_str(text), or Some(text)
AppendDirection(existing, text) ==
    IF IsSome(existing) THEN Some(existing[1] \o <<" ">> \o text) ELSE Some(text)

\* Every Text opens a segment
TextStepOpening(st, number_id, text) ==
    NewSegment(st, number_id, "Sung", st.current_character, Some(text), None)

\* Text: appended to the last segment, or the first segment of the number
TextStep(st, number_id, text) ==
    IF st.segments # <<>>
    THEN [st EXCEPT !.segments[Len(st.segments)].text =
             AppendText(st.segments[Len(st.segments)].text, text)]
    ELSE NewSegment(st, number_id, "Sung", st.current_character, Some(text), None)

DirectionStep(st, number_id, text) ==
    IF st.segments # <<>>
    THEN [st EXCEPT !.segments[Len(st.segments)].direction =
             AppendDirection(st.segments[Len(st.segments)].direction, text)]
    ELSE NewSegment(st, number_id, "Direction", None, None, Some(text))

\* One iteration of `for elem in &number.elements`
SegmentsStep(st, number_id, elem) ==
    IF elem.kind = "Character"
    THEN CharacterStep(st, number_id, elem.text)
    ELSE IF elem.kind = "Text"
    THEN (IF IsBlank(elem.text) THEN st ELSE TextStep(st, number_id, Trim(elem.text)))
    ELSE IF elem.kind = "Direction"
    THEN (IF IsBlank(elem.text) THEN st ELSE DirectionStep(st, number_id, Trim(elem.text)))
    ELSE st

RECURSIVE SegmentsScan(_, _, _)
SegmentsScan(st, number_id, elements) ==
    IF elements = <<>> THEN st
    ELSE SegmentsScan(SegmentsStep(st, number_id, Head(elements)), number_id,
                      Tail(elements))

split_segments(number) ==
    SegmentsScan([segments |-> <<>>, seq |-> 0, current_character |-> None],
                 number.id, number.elements).segments

NumberMeta(number, segs) ==
    [id |-> number.id, label |-> number.label, number_type |-> number.number_type,
     act |-> number.act, scene |-> number.scene, segment_count |-> Len(segs)]

\* The body of pipeline after split_into_numbers; per[k] the segments of numbers[k]
PipelineResult(cast, numbers, per) ==
    [cast |-> cast,
     numbers |-> Vec([k \in 1..Len(numbers) |-> NumberMeta(numbers[k], per[k])]),
     segments |-> Flatten(per)]

PipelineNumbers(cast, numbers) ==
    PipelineResult(cast, numbers,
                   Vec([k \in 1..Len(numbers) |-> split_segments(numbers[k])]))

\* The pipeline with the cast section ending at end_index
PipelineFrom(elements, end_index) ==
    PipelineNumbers(CastMembers(elements, end_index),
                    split_into_numbers(SubSeq(elements, end_index + 1, Len(elements))))

\* pipeline: cast extraction, structure splitting, segment splitting
pipeline(elements) == PipelineFrom(elements, extract_cast(elements))

\* The last segment with that id
FindLastById(translation, id) ==
    IF \E t \in 1..Len(translation) : translation[t].id = id
    THEN Some(translation[Max({ t \in 1..Len(translation) : translation[t].id = id })])
    ELSE None

\* translation.iter().find(|t| t.id == id): the first segment with that id
FindById(translation, id) ==
    IF \E t \in 1..Len(translation) : translation[t].id = id
    THEN Some(translation[Min({ t \in 1..Len(translation) : translation[t].id = id })])
    ELSE None

\* if let Some(trans_seg) = .. { orig_seg.translation = trans_seg.text.clone() }
AlignOne(orig_seg, trans_seg) ==
    IF IsSome(trans_seg) THEN [orig_seg EXCEPT !.translation = trans_seg[1].text]
    ELSE orig_seg

\* align_segments: the original list after the call
align_segments(original, translation) ==
    Vec([i \in 1..Len(original) |->
            AlignOne(original[i], FindById(translation, original[i].id))])

\* The number of segments the numbers before position k take
CountBefore(number_metas, k) ==
    SumSeq([j \in 1..(k - 1) |-> number_metas[j].segment_count])

\* (&mut seg_iter).take(meta.segment_count): what is left of the iterator, at
\* most segment_count of it
TakeSegments(segments, from, count) ==
    SubSeq(segments, from + 1, Min({from + count, Len(segments)}))

\* assemble: the numbers of the BaseLibretto (metadata and cast are carried
\* over and not modelled)
assemble(number_metas, segments) ==
    [numbers |->
        Vec([k \in 1..Len(number_metas) |->
                [id |-> number_metas[k].id, label |-> number_metas[k].label,
                 number_type |-> number_metas[k].number_type,
                 act |-> number_metas[k].act, scene |-> number_metas[k].scene,
                 segments |-> TakeSegments(segments, CountBefore(number_metas, k),
                                           number_metas[k].segment_count)]])]

\* The tail of parse_dual_monolingual: align, then assemble
ParseResult(it_result, en_result) ==
    [original |-> it_result, translation |-> en_result,
     libretto |-> assemble(it_result.numbers,
                           align_segments(it_result.segments, en_result.segments))]

\* parse_dual_monolingual on the two element lists
parse_dual_monolingual(it, en) == ParseResult(pipeline(it), pipeline(en))

---------------------------------------------------------------------------
(* libretto-validate: validate_timing_overlay *)

Error(kind, arg) == [kind |-> kind, arg |-> arg]

\* let mut prev_start = -1.0_f64, in ms
INITIAL_PREV_START == 0 - 1000

\* The errors of one SegmentTime of a track, prev_start being the start before it
StandaloneTime(track, k, prev_start) ==
    (IF track.segment_times[k].start < 0
     THEN <<Error("NegativeTime", track.segment_times[k].start)>> ELSE <<>>)
    \o (IF track.segment_times[k].start < prev_start
        THEN <<Error("SegmentsUnordered", track.track_title)>> ELSE <<>>)

StandaloneTrack(track) ==
    Flatten([k \in 1..Len(track.segment_times) |->
                StandaloneTime(track, k,
                               IF k = 1 THEN INITIAL_PREV_START
                               ELSE track.segment_times[k - 1].start)])

validate_timing_overlay_standalone(ov) ==
    Flatten([i \in 1..Len(ov.track_timings) |-> StandaloneTrack(ov.track_timings[i])])

\* UnknownSegmentId for every segment time whose id the base does not have
UnknownSegments(ov, base_seg_ids) ==
    Flatten([i \in 1..Len(ov.track_timings) |->
                Flatten([k \in 1..Len(ov.track_timings[i].segment_times) |->
                            IF ov.track_timings[i].segment_times[k].segment_id
                                  \in base_seg_ids
                            THEN <<>>
                            ELSE <<Error("UnknownSegmentId",
                                         ov.track_timings[i].segment_times[k].segment_id)>>])])

\* The number ids the drawn inputs use, in the order of str::cmp
NumberIdOrder == <<"no-1", "no-2", "no-3", "no-9">>

\* ids.sort(): the ids of a set in ascending order
SortIds(ids) == SelectSeq(NumberIdOrder, LAMBDA id : id \in ids)

\* The omitted numbers left out of the accounted ones
CoveredOnly(covered, omitted) == covered

\* covered.union(&omitted)
Accounted(covered, omitted) == covered \cup omitted

\* Every base number, accounted or not
AllBaseNumbers(base_number_ids, accounted) == base_number_ids

\* base_number_ids.difference(&accounted)
Unaccounted(base_number_ids, accounted) == base_number_ids \ accounted

ErrorsOf(kind, ids) == [k \in 1..Len(ids) |-> Error(kind, ids[k])]

\* The coverage part, the two HashSet loops running in the orders given
CoverageErrors(base_number_ids, covered, omitted, unknown_order, conflict_order) ==
    ErrorsOf("UnknownOmittedNumber", unknown_order)
    \o ErrorsOf("ConflictingCoverage", conflict_order)
    \o ErrorsOf("UnaccountedNumber",
                SortIds(Unaccounted(base_number_ids, Accounted(covered, omitted))))

\* CoverageReport
Coverage(base_number_ids, covered, omitted) ==
    [total |-> Cardinality(base_number_ids),
     covered |-> Cardinality(covered),
     omitted |-> Cardinality(omitted),
     unaccounted |-> Cardinality(Unaccounted(base_number_ids,
                                             Accounted(covered, omitted)))]

BaseNumberIds(b) == { b.numbers[n].id : n \in 1..Len(b.numbers) }

\* The omitted ids that the base does not have
UnknownOmitted(b, ov) == Range(omitted_number_ids(ov)) \ BaseNumberIds(b)

\* covered.intersection(&omitted)
Conflicting(ov) == covered_number_ids(ov) \cap Range(omitted_number_ids(ov))

\* validate_timing_overlay, the loops over the two HashSets running in the
\* orders given: the errors returned, the CoverageReport logged, and the
\* sets covered, omitted and unaccounted the function works with
validate_timing_overlay(ov, b, unknown_order, conflict_order) ==
    [errors |-> validate_timing_overlay_standalone(ov)
                \o UnknownSegments(ov, Range(base_segment_ids(b)))
                \o CoverageErrors(BaseNumberIds(b), covered_number_ids(ov),
                                  Range(omitted_number_ids(ov)),
                                  unknown_order, conflict_order),
     coverage |-> Coverage(BaseNumberIds(b), covered_number_ids(ov),
                           Range(omitted_number_ids(ov))),
     covered |-> covered_number_ids(ov),
     omitted |-> Range(omitted_number_ids(ov)),
     unaccounted |-> Unaccounted(BaseNumberIds(b),
                                 Accounted(covered_number_ids(ov),
                                           Range(omitted_number_ids(ov))))]

---------------------------------------------------------------------------
(* The classifier on drawn token streams: parse_dual_monolingual *)

Elem(kind, text) == [kind |-> kind, text |-> text]

BlankLine == Elem("BlankLine", <<>>)

\* What may stand before the body: nothing, or a cast section
Preambles ==
    { <<>>,
      <<Elem("ActHeader", <<"P","e","r","s","o","n","a","g","g","i">>), Elem("Text", <<"F","i","g","a","r","o"," ","-"," ","b","a","s","s","o">>), BlankLine>>,
      <<BlankLine, Elem("ActHeader", <<"C","A","S","T">>), Elem("Character", <<"F","I","G","A","R","O"," ","(","b","a","s","s",")">>)>> }

\* The pieces a body is made of
BlockOptions ==
    { <<Elem("ActHeader", <<"A","C","T"," ","2">>)>>,
      <<Elem("NumberLabel", <<"N","DEG"," ","1",":"," ","A","r","i","a">>)>>,
      <<Elem("NumberLabel", <<"R","e","c","i","t","a","t","i","v","o">>), Elem("Character", <<"F","I","G","A","R","O">>)>>,
      <<Elem("NumberLabel", <<"R","e","c","i","t","a","t","i","v","o">>), Elem("Text", <<"l","a"," ","l","a">>)>>,
      <<Elem("NumberLabel", <<"S","i","n","f","o","n","i","a">>)>>,
      <<Elem("NumberLabel", <<"L","o","r","e","n","z","o"," ","D","a"," ","P","o","n","t","e">>)>>,
      <<Elem("Character", <<"S","U","S","A","N","N","A">>), Elem("Text", <<"o","r","a"," ","s","i">>)>>,
      <<Elem("Text", <<"l","a"," ","l","a">>)>>,
      <<Elem("Text", <<" ">>)>>,
      <<Elem("Direction", <<"(","e","s","c","e",")">>)>>,
      <<BlankLine>> }

\* Most blocks of a body
MaxBlocks == 2

Streams ==
    { p \o Flatten(b) : p \in Preambles, b \in SeqsUpTo(BlockOptions, 0, MaxBlocks) }

IsContent(elem) == elem.kind \in {"Character", "Text", "Direction"}

\* The other language's rendering of one content element
Rendered(elem, how) ==
    IF ~IsContent(elem) \/ how = "same" THEN elem
    ELSE IF how = "blanked" THEN Elem(elem.kind, <<" "," ">>)
    ELSE IF IsBlank(elem.text) THEN elem
    ELSE IF how = "indented" THEN Elem(elem.kind, <<" ">> \o elem.text)
    ELSE Elem(elem.kind, <<"o","h">>)

Renderings == {"same", "other", "indented", "blanked"}

Render(stream, how) == [i \in 1..Len(stream) |-> Rendered(stream[i], how)]

InitParse ==
    /\ pc = "init"
    /\ it_elements \in Streams
    /\ en_elements \in { Render(it_elements, how) : how \in Renderings }
    /\ parsed = <<>>
    /\ d_segments = <<>> /\ d_duration = 0 /\ d_times = <<>>
    /\ base = <<>> /\ overlay = <<>> /\ est = <<>> /\ res = <<>>
    /\ orig_segs = <<>> /\ trans_segs = <<>> /\ aligned = <<>>
    /\ validation = <<>>
    /\ merged = <<>> /\ output = <<>>
    /\ c_title = <<>> /\ c_anchors = <<>>

\* parse_dual_monolingual on the two streams
Parse ==
    /\ pc = "init"
    /\ parsed' = parse_dual_monolingual(it_elements, en_elements)
    /\ pc' = "parsed"
    /\ UNCHANGED <<classifyVars, it_elements, en_elements, distributeVars, timingVars, alignVars,
                   validation, mergeVars>>

NextParse == Parse

SpecParse == InitParse /\ [][NextParse]_vars

---------------------------------------------------------------------------
(* C6: ids depend on the structure only *)

\* A content that holds more than whitespace
NonBlank(text) == \E i \in 1..Len(text) : ~IsWhitespace(text[i])

\* Same kinds, same ActHeader and NumberLabel texts, and contents that are
\* equal or both non-blank
ParallelAt(a, b) ==
    /\ a.kind = b.kind
    /\ a.kind \in {"ActHeader", "NumberLabel"} => a.text = b.text
    /\ IsContent(a) => (a.text = b.text \/ (NonBlank(a.text) /\ NonBlank(b.text)))

Parallel(a, b) ==
    /\ Len(a) = Len(b)
    /\ \A i \in 1..Len(a) : ParallelAt(a[i], b[i])

NumberIdsOf(result) == [k \in 1..Len(result.numbers) |-> result.numbers[k].id]

SegmentIdsOf(result) == [k \in 1..Len(result.segments) |-> result.segments[k].id]

\* C6: two streams with the same kinds and the same ActHeader and NumberLabel
\* texts, whose Character, Text and Direction contents are non-blank where
\* they differ, are given the same list of number ids and the same list of
\* segment ids.
C6_IdDeterminism ==
    (pc = "parsed" /\ Parallel(it_elements, en_elements)) =>
        /\ NumberIdsOf(parsed.original) = NumberIdsOf(parsed.translation)
        /\ SegmentIdsOf(parsed.original) = SegmentIdsOf(parsed.translation)

\* Streams that differ in a text, classified into two numbers with segments
C6_Witness ==
    /\ pc = "parsed"
    /\ Parallel(it_elements, en_elements)
    /\ \E i \in 1..Len(it_elements) :
          /\ it_elements[i].kind = "Text"
          /\ it_elements[i].text # en_elements[i].text
    /\ Len(parsed.original.numbers) >= 2
    /\ Len(parsed.original.segments) >= 2

---------------------------------------------------------------------------
(* C7: segment ids of the BaseLibretto *)

\* C7: no two segments of the BaseLibretto built by the classifier have the
\* same id.
C7_SegmentIdsUnique ==
    pc = "parsed" =>
        \A i, j \in 1..Len(base_segment_ids(parsed.libretto)) :
            base_segment_ids(parsed.libretto)[i] = base_segment_ids(parsed.libretto)[j]
                => i = j

---------------------------------------------------------------------------
(* The aligner on drawn segment lists *)

ASeg(id, text, tr) ==
    [id |-> id, segment_type |-> "Sung", character |-> None, text |-> text,
     translation |-> tr, direction |-> None, group |-> None]

\* Original segments: two ids, an id twice, one that already has a translation
OriginalOptions ==
    { ASeg(<<"n","o","-","1","-","0","0","1">>, Some(<<"l","a"," ","l","a">>), None),
      ASeg(<<"n","o","-","1","-","0","0","2">>, Some(<<"o","r","a"," ","s","i">>), None),
      ASeg(<<"n","o","-","1","-","0","0","1">>, None, None),
      ASeg(<<"r","e","c","-","1","-","0","0","1">>, Some(<<"o","h">>), Some(<<"k","e","p","t">>)) }

\* Translation segments: an id twice with two texts, one without text, one
\* that no original has
TranslationOptions ==
    { ASeg(<<"n","o","-","1","-","0","0","1">>, Some(<<"o","n","e">>), None),
      ASeg(<<"n","o","-","1","-","0","0","1">>, Some(<<"t","w","o">>), None),
      ASeg(<<"n","o","-","1","-","0","0","2">>, None, None),
      ASeg(<<"r","e","c","-","1","-","0","0","1">>, Some(<<"t","h","r","e","e">>), None),
      ASeg(<<"n","o","-","9","-","0","0","1">>, Some(<<"f","o","u","r">>), None) }

\* Longest segment list handed to align_segments
MaxAlign == 2

InitAlign ==
    /\ pc = "init"
    /\ orig_segs \in SeqsUpTo(OriginalOptions, 0, MaxAlign)
    /\ trans_segs \in SeqsUpTo(TranslationOptions, 0, MaxAlign)
    /\ aligned = <<>>
    /\ d_segments = <<>> /\ d_duration = 0 /\ d_times = <<>>
    /\ base = <<>> /\ overlay = <<>> /\ est = <<>> /\ res = <<>>
    /\ it_elements = <<>> /\ en_elements = <<>> /\ parsed = <<>>
    /\ validation = <<>>
    /\ merged = <<>> /\ output = <<>>
    /\ c_title = <<>> /\ c_anchors = <<>>

\* align_segments(&mut original, &translation)
Align ==
    /\ pc = "init"
    /\ aligned' = align_segments(orig_segs, trans_segs)
    /\ pc' = "aligned"
    /\ UNCHANGED <<classifyVars, orig_segs, trans_segs, distributeVars, timingVars, parseVars,
                   validation, mergeVars>>

NextAlign == Align

SpecAlign == InitAlign /\ [][NextAlign]_vars

---------------------------------------------------------------------------
(* C8: the aligner contract *)

\* The positions of the translation segments with the id
MatchesOf(id) == { t \in 1..Len(trans_segs) : trans_segs[t].id = id }

\* Everything but the translation is as before
SameButTranslation(after, before) ==
    [after EXCEPT !.translation = None] = [before EXCEPT !.translation = None]

\* C8: after align_segments the original list has the same length and order
\* and every segment its id, text and other fields; a segment whose id some
\* translation segment has gets the text of the first such segment as its
\* translation, a segment without a match keeps the translation it had, and
\* so no translation comes from a segment with another id.
C8_AlignerContract ==
    pc = "aligned" =>
        /\ Len(aligned) = Len(orig_segs)
        /\ \A i \in 1..Len(orig_segs) :
              /\ SameButTranslation(aligned[i], orig_segs[i])
              /\ IF MatchesOf(orig_segs[i].id) # {}
                 THEN aligned[i].translation =
                          trans_segs[Min(MatchesOf(orig_segs[i].id))].text
                 ELSE aligned[i].translation = orig_segs[i].translation
              /\ aligned[i].translation # orig_segs[i].translation =>
                    \E t \in MatchesOf(orig_segs[i].id) :
                        aligned[i].translation = trans_segs[t].text

\* A segment that is given a translation next to an unmatched one, and a
\* translation segment that no original has
C8_Witness ==
    /\ pc = "aligned"
    /\ \E i, j \in 1..Len(orig_segs) :
          /\ MatchesOf(orig_segs[i].id) # {}
          /\ IsSome(aligned[i].translation)
          /\ aligned[i].translation # orig_segs[i].translation
          /\ MatchesOf(orig_segs[j].id) = {}
    /\ \E t \in 1..Len(trans_segs) :
          \A k \in 1..Len(orig_segs) : orig_segs[k].id # trans_segs[t].id

---------------------------------------------------------------------------
(* The validator on drawn bases and overlays *)

\* A base in which a number id occurs twice
BaseC ==
    [numbers |-> <<
        [id |-> "no-3", act |-> "1", segments |-> << >>],
        [id |-> "no-1", act |-> "1", segments |-> <<
            Seg("no-1-001", "Sung", Some(<<"B","r","a","v","o">>)) >>],
        [id |-> "no-3", act |-> "2", segments |-> <<
            Seg("no-3-001", "Sung", Some(<<"l","a"," ","l","a">>)) >>] >>]

ValidatedBases == {BaseA, BaseB, BaseC}

Time(id, start) == [segment_id |-> id, start |-> start]

\* Tracks with and without times, in and out of order, of known and unknown
\* numbers and segments
ValidatedTracks ==
    { Track(TitlePlain, Some(100000), <<"no-1">>, None, <<>>),
      Track(TitlePlain, Some(100000), <<"no-2">>, None,
            <<Time("no-2-001", 0), Time("no-2-002", 5000)>>),
      Track(TitleRecit, Some(100000), <<"no-1", "no-2">>, None,
            <<Time("no-1-002", 5000), Time("no-1-001", 0 - 1500)>>),
      Track(TitlePlain, None, <<"no-9">>, None, <<Time("no-9-001", 0)>>),
      Track(TitlePlain, Some(100000), <<"no-1">>, None,
            <<Time("no-1-001", 0 - 2000), Time("no-1-002", 0 - 2000)>>),
      Track(TitlePlain, Some(100000), <<"no-3", "no-1", "no-9">>, None,
            <<Time("no-1-001", 0)>>) }

OmittedNumber(id) == [number_id |-> id, reason |-> None]

OmittedOptions == { OmittedNumber(id) : id \in {"no-1", "no-3", "no-9"} }

\* Most entries of omitted_numbers
MaxOmitted == 2

ValidatedOverlays ==
    { [track_timings |-> tt, omitted_numbers |-> om] :
        tt \in SeqsUpTo(ValidatedTracks, 0, MaxTracks),
        om \in SeqsUpTo(OmittedOptions, 0, MaxOmitted) }

InitValidate ==
    /\ pc = "init"
    /\ base \in ValidatedBases
    /\ overlay \in ValidatedOverlays
    /\ validation = <<>>
    /\ merged = <<>> /\ output = <<>>
    /\ c_title = <<>> /\ c_anchors = <<>>
    /\ est = <<>> /\ res = <<>>
    /\ d_segments = <<>> /\ d_duration = 0 /\ d_times = <<>>
    /\ it_elements = <<>> /\ en_elements = <<>> /\ parsed = <<>>
    /\ orig_segs = <<>> /\ trans_segs = <<>> /\ aligned = <<>>

\* validate_timing_overlay(overlay, base); the two loops over HashSets run
\* in any order of their elements
Validate ==
    /\ pc = "init"
    /\ \E unknown_order \in KeyOrders(UnknownOmitted(base, overlay)),
          conflict_order \in KeyOrders(Conflicting(overlay)) :
          validation' = validate_timing_overlay(overlay, base, unknown_order,
                                                conflict_order)
    /\ pc' = "validated"
    /\ UNCHANGED <<classifyVars, base, overlay, est, res, distributeVars, parseVars, alignVars,
                   mergeVars>>

\* validate_timing_overlay_standalone(overlay)
ValidateStandalone ==
    /\ pc = "init"
    /\ validation' = [errors |-> validate_timing_overlay_standalone(overlay)]
    /\ pc' = "validated_standalone"
    /\ UNCHANGED <<classifyVars, base, overlay, est, res, distributeVars, parseVars, alignVars,
                   mergeVars>>

NextValidate == Validate \/ ValidateStandalone

SpecValidate == InitValidate /\ [][NextValidate]_vars

---------------------------------------------------------------------------
(* C9: the three classes of base numbers *)

\* Referenced by at least one track
Referenced(id) ==
    \E i \in 1..Len(overlay.track_timings) :
        Contains(overlay.track_timings[i].number_ids, id)

\* Declared in omitted_numbers
Declared(id) ==
    \E k \in 1..Len(overlay.omitted_numbers) :
        overlay.omitted_numbers[k].number_id = id

ErrorCount(kind, id) ==
    Cardinality({ k \in 1..Len(validation.errors) :
                    validation.errors[k] = Error(kind, id) })

\* The classes of the validator are those of the statement
ClassesAsStated(id) ==
    /\ id \in validation.covered <=> Referenced(id)
    /\ id \in validation.omitted <=> Declared(id)
    /\ id \in validation.unaccounted <=> (~Referenced(id) /\ ~Declared(id))

\* C9: every base number id is covered, omitted or unaccounted; an
\* unaccounted one is neither covered nor omitted, so an id is in exactly one
\* class unless it is both covered and omitted, and then
\* validate_timing_overlay reports ConflictingCoverage for it.
C9_CoverageTotality ==
    pc = "validated" =>
        \A id \in BaseNumberIds(base) :
            /\ ClassesAsStated(id)
            /\ id \in validation.covered \cup validation.omitted
                         \cup validation.unaccounted
            /\ id \in validation.unaccounted =>
                  id \notin validation.covered \cup validation.omitted
            /\ id \in validation.covered \cap validation.omitted <=>
                  ErrorCount("ConflictingCoverage", id) = 1

\* The number of classes an id is in
ClassCount(id) ==
    (IF id \in validation.covered THEN 1 ELSE 0)
    + (IF id \in validation.omitted THEN 1 ELSE 0)
    + (IF id \in validation.unaccounted THEN 1 ELSE 0)

\* The statement as given: exactly one class for every base number id
C9_ExactlyOne ==
    pc = "validated" => \A id \in BaseNumberIds(base) : ClassCount(id) = 1

\* A base with a number that is covered and omitted, one that is omitted
\* only and one that is unaccounted
C9_Witness ==
    /\ pc = "validated"
    /\ \E b, o, u \in BaseNumberIds(base) :
          /\ ClassCount(b) = 2
          /\ ErrorCount("ConflictingCoverage", b) = 1
          /\ o \in validation.omitted /\ o \notin validation.covered
          /\ u \in validation.unaccounted

---------------------------------------------------------------------------
(* C10: UnaccountedNumber errors *)

\* C10: validate_timing_overlay reports one UnaccountedNumber error for each
\* base number id that no track references and omitted_numbers does not
\* declare, and none for any other id; when every base number that no track
\* references is declared omitted there is no such error at all.
C10_UnaccountedNumbers ==
    pc = "validated" =>
        /\ \A id \in Range(NumberIdOrder) :
              ErrorCount("UnaccountedNumber", id) =
                  IF id \in BaseNumberIds(base) /\ ~Referenced(id) /\ ~Declared(id)
                  THEN 1 ELSE 0
        /\ \A k \in 1..Len(validation.errors) :
              validation.errors[k].kind = "UnaccountedNumber" =>
                  validation.errors[k].arg \in Range(NumberIdOrder)
        /\ (\A id \in BaseNumberIds(base) : ~Referenced(id) => Declared(id)) =>
              \A k \in 1..Len(validation.errors) :
                  validation.errors[k].kind # "UnaccountedNumber"

\* no-1 is in the base, no track references it and it is not declared:
\* one error for it, and none for a number that is declared omitted
C10_Witness ==
    /\ pc = "validated"
    /\ "no-1" \in BaseNumberIds(base)
    /\ ~Referenced("no-1") /\ ~Declared("no-1")
    /\ ErrorCount("UnaccountedNumber", "no-1") = 1
    /\ \E id \in BaseNumberIds(base) :
          /\ Declared(id) /\ ~Referenced(id)
          /\ ErrorCount("UnaccountedNumber", id) = 0

---------------------------------------------------------------------------
(* C11: the errors of validate_timing_overlay_standalone *)

\* The (track, position) pairs of the overlay's SegmentTimes
TimePositions ==
    { <<i, k>> \in (1..Len(overlay.track_timings)) \X (1..3) :
        k <= Len(overlay.track_timings[i].segment_times) }

StartAt(p) == overlay.track_timings[p[1]].segment_times[p[2]].start

\* A start below 0
IsNegative(p) == StartAt(p) < 0

\* A start smaller than the start just before it in the same track
IsUnordered(p) == p[2] > 1 /\ StartAt(p) < StartAt(<<p[1], p[2] - 1>>)

KindCount(kind) ==
    Cardinality({ k \in 1..Len(validation.errors) : validation.errors[k].kind = kind })

\* C11: validate_timing_overlay_standalone returns one NegativeTime error per
\* SegmentTime whose start is below 0, one SegmentsUnordered error per
\* SegmentTime whose start is smaller than the start just before it in its
\* track, and nothing else.
C11_EveryViolationOnly ==
    pc = "validated_standalone" =>
        /\ KindCount("NegativeTime") = Cardinality({ p \in TimePositions : IsNegative(p) })
        /\ KindCount("SegmentsUnordered") =
              Cardinality({ p \in TimePositions : IsUnordered(p) })
        /\ Len(validation.errors) =
              KindCount("NegativeTime") + KindCount("SegmentsUnordered")

---------------------------------------------------------------------------
(* libretto-model: merge *)

\* base.numbers.iter().flat_map(|n| n.segments.iter())
BaseSegments(b) ==
    Flatten([n \in 1..Len(b.numbers) |-> b.numbers[n].segments])

\* segment_context as the list of its inserts: (segment id, act, scene)
SegmentContexts(b) ==
    Flatten([n \in 1..Len(b.numbers) |->
                [k \in 1..Len(b.numbers[n].segments) |->
                    [id |-> b.numbers[n].segments[k].id,
                     act |-> b.numbers[n].act,
                     scene |-> b.numbers[n].scene]]])

\* HashMap::get after the entries were inserted in order: the last entry
\* with the key
MapGet(entries, id) ==
    IF \E k \in 1..Len(entries) : entries[k].id = id
    THEN Some(entries[Max({ k \in 1..Len(entries) : entries[k].id = id })])
    ELSE None

\* format!("{:?}", s.segment_type).to_lowercase()
TypeName(segment_type) ==
    CASE segment_type = "Sung" -> "sung"
      [] segment_type = "Spoken" -> "spoken"
      [] segment_type = "Direction" -> "direction"
      [] segment_type = "Interlude" -> "interlude"

\* The track duration at every position
SegmentEndOfTrack(track, j) == track.duration_seconds

\* next segment's start, or track duration
SegmentEnd(track, j) ==
    IF j + 1 <= Len(track.segment_times)
    THEN Some(track.segment_times[j + 1].start)
    ELSE track.duration_seconds

\* InterchangeSegment { .. } for the SegmentTime at position j
InterchangeSegment(track, j, base_seg, ctx) ==
    [start |-> track.segment_times[j].start,
     end |-> SegmentEnd(track, j),
     segment_type |-> IF IsSome(base_seg) THEN TypeName(base_seg[1].segment_type)
                      ELSE "sung",
     character |-> IF IsSome(base_seg) THEN base_seg[1].character ELSE None,
     text |-> IF IsSome(base_seg) THEN base_seg[1].text ELSE None,
     translation |-> IF IsSome(base_seg) THEN base_seg[1].translation ELSE None,
     direction |-> IF IsSome(base_seg) THEN base_seg[1].direction ELSE None,
     act |-> IF IsSome(ctx) THEN Some(ctx[1].act) ELSE None,
     scene |-> IF IsSome(ctx) THEN ctx[1].scene ELSE None]

\* The slot of the SegmentTime at position j
SlotAt(track, j, segment_map, segment_context) ==
    InterchangeSegment(track, j,
                       MapGet(segment_map, track.segment_times[j].segment_id),
                       MapGet(segment_context, track.segment_times[j].segment_id))

\* The slots of the SegmentTimes whose id the base has
MergedKnownSegments(track, segment_map, segment_context) ==
    Flatten([j \in 1..Len(track.segment_times) |->
                IF IsSome(MapGet(segment_map, track.segment_times[j].segment_id))
                THEN <<SlotAt(track, j, segment_map, segment_context)>>
                ELSE <<>>])

\* The segments of a merged track
MergedSegments(track, segment_map, segment_context) ==
    Vec([j \in 1..Len(track.segment_times) |->
            SlotAt(track, j, segment_map, segment_context)])

Warning(track_title, segment_id) ==
    [track_title |-> track_title, segment_id |-> segment_id]

\* warnings.push(..) for every SegmentTime whose id the base does not have
MergeWarnings(track, segment_map) ==
    Flatten([j \in 1..Len(track.segment_times) |->
                IF IsSome(MapGet(segment_map, track.segment_times[j].segment_id))
                THEN <<>>
                ELSE <<Warning(track.track_title,
                               track.segment_times[j].segment_id)>>])

\* Build track ID from disc/track number or index (index counted from 1 here)
TrackId(track, index) ==
    IF IsSome(track.disc_number) /\ IsSome(track.track_number)
    THEN <<"d">> \o Decimal(track.disc_number[1]) \o <<"-","t">> \o Decimal(track.track_number[1])
    ELSE IF track.disc_number = None /\ IsSome(track.track_number)
    THEN <<"t">> \o Decimal(track.track_number[1])
    ELSE <<"t","r","a","c","k","-">> \o Decimal(index)

\* Artist from recording metadata
Artist(recording) ==
    IF IsSome(recording.conductor)
    THEN (IF IsSome(recording.orchestra)
          THEN Some(recording.conductor[1] \o <<" ","/"," ">> \o recording.orchestra[1])
          ELSE recording.conductor)
    ELSE None

\* InterchangeTrack { .. }
InterchangeTrack(track, index, recording, segments) ==
    [track_id |-> TrackId(track, index),
     title |-> track.track_title,
     album |-> recording.album_title,
     artist |-> Artist(recording),
     disc_number |-> track.disc_number,
     track_number |-> track.track_number,
     duration_seconds |-> track.duration_seconds,
     act |-> IF segments = <<>> THEN None ELSE segments[1].act,
     scene |-> None,
     segments |-> segments]

merge_track(track, index, segment_map, segment_context, recording) ==
    InterchangeTrack(track, index, recording,
                     MergedSegments(track, segment_map, segment_context))

InterchangeOpera(opera) ==
    [title |-> opera.title, composer |-> opera.composer,
     librettist |-> opera.librettist, language |-> opera.language,
     translation_language |-> opera.translation_language, year |-> opera.year]

\* MergeResult { libretto, stats, warnings }
MergeResult(b, ov, tracks, segment_map) ==
    [libretto |-> [version |-> "1.0", opera |-> InterchangeOpera(b.opera),
                   tracks |-> tracks],
     stats |-> [base_segments |->
                    SumSeq([n \in 1..Len(b.numbers) |-> Len(b.numbers[n].segments)]),
                overlay_references |->
                    SumSeq([i \in 1..Len(ov.track_timings) |->
                               Len(ov.track_timings[i].segment_times)]),
                merged_segments |->
                    SumSeq([i \in 1..Len(tracks) |-> Len(tracks[i].segments)]),
                tracks |-> Len(ov.track_timings)],
     warnings |-> Flatten([i \in 1..Len(ov.track_timings) |->
                              MergeWarnings(ov.track_timings[i], segment_map)])]

MergeWith(b, ov, segment_map, segment_context) ==
    MergeResult(b, ov,
                Vec([i \in 1..Len(ov.track_timings) |->
                        merge_track(ov.track_timings[i], i, segment_map,
                                    segment_context, ov.recording)]),
                segment_map)

merge(b, ov) == MergeWith(b, ov, BaseSegments(b), SegmentContexts(b))

---------------------------------------------------------------------------
(* merge on drawn bases and overlays *)

MSeg(id, ty, character, text, translation, direction) ==
    [id |-> id, segment_type |-> ty, character |-> character, text |-> text,
     translation |-> translation, direction |-> direction, group |-> None]

Opera ==
    [title |-> <<"L","e"," ","n","o","z","z","e"," ","d","i"," ","F","i","g","a","r","o">>, composer |-> <<"M","o","z","a","r","t">>, librettist |-> None,
     language |-> <<"i","t">>, translation_language |-> Some(<<"e","n">>), year |-> Some(1786)]

\* A number with a scene and one without
MergeBaseA ==
    [opera |-> Opera,
     numbers |-> <<
        [id |-> "no-1", act |-> <<"1">>, scene |-> Some(<<"2">>), segments |-> <<
            MSeg("no-1-001", "Sung", Some(<<"F","I","G","A","R","O">>), Some(<<"C","i","n","q","u","e">>), Some(<<"F","i","v","e">>),
                 Some(<<"(","m","i","s","u","r","a","n","d","o",")">>)),
            MSeg("no-1-002", "Direction", None, None, None, Some(<<"(","e","s","c","e",")">>)) >>],
        [id |-> "no-2", act |-> <<"2">>, scene |-> None, segments |-> <<
            MSeg("no-2-001", "Spoken", Some(<<"S","U","S","A","N","N","A">>), Some(<<"O","r","a"," ","s","i">>), None, None) >>] >>]

\* A segment id that two numbers have
MergeBaseB ==
    [opera |-> Opera,
     numbers |-> <<
        [id |-> "no-2", act |-> <<"1">>, scene |-> None, segments |-> <<
            MSeg("no-2-001", "Sung", None, Some(<<"l","a"," ","l","a">>), None, None) >>],
        [id |-> "no-1", act |-> <<"2">>, scene |-> Some(<<"1">>), segments |-> <<
            MSeg("no-1-001", "Interlude", None, None, None, None),
            MSeg("no-2-001", "Sung", Some(<<"F","I","G","A","R","O">>), Some(<<"B","r","a","v","o">>), Some(<<"W","e","l","l">>),
                 None) >>] >>]

MergeBases == {MergeBaseA, MergeBaseB}

MTrack(title, dur, nids, disc, num, times) ==
    [track_title |-> title, duration_seconds |-> dur, number_ids |-> nids,
     start_segment_id |-> None, segment_times |-> times,
     disc_number |-> disc, track_number |-> num]

\* Tracks with and without duration, disc and track number, with times of
\* known and unknown segments, within and past the duration
MergeTracks ==
    { MTrack(TitlePlain, Some(100000), <<"no-1">>, Some(1), Some(2),
             <<Time("no-1-001", 0), Time("no-1-002", 5000)>>),
      MTrack(TitlePlain, None, <<"no-2">>, None, Some(3), <<Time("no-2-001", 0)>>),
      MTrack(TitleRecit, Some(50000), <<"no-1", "no-2">>, None, None,
             <<Time("no-9-001", 1000), Time("no-1-001", 500)>>),
      MTrack(TitlePlain, Some(100000), <<"no-2">>, Some(1), None, <<>>),
      MTrack(TitlePlain, Some(60000), <<"no-2", "no-1">>, None, None,
             <<Time("no-2-001", 0), Time("no-1-001", 7000), Time("no-9-001", 7000)>>),
      MTrack(TitlePlain, Some(3000), <<"no-1">>, Some(2), Some(1),
             <<Time("no-1-001", 0), Time("no-1-002", 5000)>>) }

Recordings ==
    { [conductor |-> None, orchestra |-> None, album_title |-> None],
      [conductor |-> Some(<<"G","i","u","l","i","n","i">>), orchestra |-> None, album_title |-> Some(<<"F","i","g","a","r","o">>)],
      [conductor |-> Some(<<"G","i","u","l","i","n","i">>), orchestra |-> Some(<<"P","h","i","l","h","a","r","m","o","n","i","a">>),
       album_title |-> None] }

OmittedLists ==
    { <<>>, <<OmittedNumber("no-2")>>, <<OmittedNumber("no-1"), OmittedNumber("no-2")>> }

MergeOverlays ==
    { [recording |-> r, track_timings |-> tt, omitted_numbers |-> om] :
        r \in Recordings, tt \in SeqsUpTo(MergeTracks, 0, MaxTracks),
        om \in OmittedLists }

InitMerge ==
    /\ pc = "init"
    /\ base \in MergeBases
    /\ overlay \in MergeOverlays
    /\ merged = <<>> /\ output = <<>>
    /\ c_title = <<>> /\ c_anchors = <<>>
    /\ validation = <<>>
    /\ est = <<>> /\ res = <<>>
    /\ d_segments = <<>> /\ d_duration = 0 /\ d_times = <<>>
    /\ it_elements = <<>> /\ en_elements = <<>> /\ parsed = <<>>
    /\ orig_segs = <<>> /\ trans_segs = <<>> /\ aligned = <<>>

\* merge(base, overlay)
Merge ==
    /\ pc = "init"
    /\ merged' = merge(base, overlay)
    /\ pc' = "merged"
    /\ UNCHANGED <<classifyVars, output, validation, timingVars, distributeVars, parseVars, alignVars>>

NextMerge == Merge

SpecMerge == InitMerge /\ [][NextMerge]_vars

---------------------------------------------------------------------------
(* C12: merge keeps every position *)

IsKnown(segment_id) ==
    \E n \in 1..Len(base.numbers) :
        \E k \in 1..Len(base.numbers[n].segments) :
            base.numbers[n].segments[k].id = segment_id

\* The slot of an unknown segment: nothing but its times and the default type
IsEmptySlot(s) ==
    /\ s.text = None /\ s.character = None /\ s.translation = None
    /\ s.direction = None /\ s.act = None /\ s.scene = None

WarningsNaming(segment_id) ==
    Cardinality({ w \in 1..Len(merged.warnings) :
                    merged.warnings[w].segment_id = segment_id })

ReferencesTo(segment_id) ==
    Cardinality({ <<i, j>> \in (1..Len(overlay.track_timings)) \X (1..3) :
                    /\ j <= Len(overlay.track_timings[i].segment_times)
                    /\ overlay.track_timings[i].segment_times[j].segment_id = segment_id })

MergedIds == {"no-1-001", "no-1-002", "no-2-001", "no-9-001"}

\* C12: the interchange document has one track per overlay track, in order,
\* and each track one segment per SegmentTime, in order and with its start;
\* a SegmentTime whose id the base does not have yields a segment without
\* text, character, translation, direction, act and scene and one warning
\* naming the id, and there are no other warnings; so merged_segments equals
\* overlay_references.
C12_NoPositionDropped ==
    pc = "merged" =>
        /\ Len(merged.libretto.tracks) = Len(overlay.track_timings)
        /\ \A i \in 1..Len(overlay.track_timings) :
              /\ merged.libretto.tracks[i].title = overlay.track_timings[i].track_title
              /\ Len(merged.libretto.tracks[i].segments) =
                    Len(overlay.track_timings[i].segment_times)
              /\ \A j \in 1..Len(overlay.track_timings[i].segment_times) :
                    /\ merged.libretto.tracks[i].segments[j].start =
                          overlay.track_timings[i].segment_times[j].start
                    /\ ~IsKnown(overlay.track_timings[i].segment_times[j].segment_id)
                          => IsEmptySlot(merged.libretto.tracks[i].segments[j])
        /\ \A id \in MergedIds :
              WarningsNaming(id) = IF IsKnown(id) THEN 0 ELSE ReferencesTo(id)
        /\ merged.stats.merged_segments = merged.stats.overlay_references

\* Two tracks, one of them with a SegmentTime of an unknown segment between
\* or before known ones
C12_Witness ==
    /\ pc = "merged"
    /\ Len(overlay.track_timings) = 2
    /\ \E i \in 1..2 :
          \E j \in 1..Len(overlay.track_timings[i].segment_times) :
              /\ ~IsKnown(overlay.track_timings[i].segment_times[j].segment_id)
              /\ IsEmptySlot(merged.libretto.tracks[i].segments[j])
              /\ Len(overlay.track_timings[i].segment_times) > 1
    /\ merged.stats.merged_segments >= 3
    /\ Len(merged.warnings) = 1

---------------------------------------------------------------------------
(* C13: merged end times *)

\* C13: at every position j of every track the merged segment's end is the
\* start of the SegmentTime at position j+1 of the same track when there is
\* one, and the track's duration_seconds, absent when the track has none,
\* when j is the last position.
C13_EndTimes ==
    pc = "merged" =>
        \A i \in 1..Len(overlay.track_timings) :
            \A j \in 1..Len(overlay.track_timings[i].segment_times) :
                merged.libretto.tracks[i].segments[j].end =
                    IF j < Len(overlay.track_timings[i].segment_times)
                    THEN Some(overlay.track_timings[i].segment_times[j + 1].start)
                    ELSE overlay.track_timings[i].duration_seconds

\* A track without duration followed by a track with times: the last end of
\* the first is absent; and a track of several positions followed by another
\* track, whose last end is its own duration
C13_Witness ==
    /\ pc = "merged"
    /\ Len(overlay.track_timings) = 2
    /\ Len(overlay.track_timings[1].segment_times) > 0
    /\ Len(overlay.track_timings[2].segment_times) > 0
    /\ \/ /\ overlay.track_timings[1].duration_seconds = None
          /\ merged.libretto.tracks[1].segments[
                Len(merged.libretto.tracks[1].segments)].end = None
       \/ /\ Len(overlay.track_timings[1].segment_times) > 1
          /\ merged.libretto.tracks[1].segments[1].end =
                Some(overlay.track_timings[1].segment_times[2].start)
          /\ merged.libretto.tracks[1].segments[
                Len(merged.libretto.tracks[1].segments)].end = Some(100000)
          /\ overlay.track_timings[2].segment_times[1].start # 100000

---------------------------------------------------------------------------
(* C14: merged track context *)

\* The base numbers that have a segment with the id
OwnersOf(segment_id) ==
    { n \in 1..Len(base.numbers) :
        \E k \in 1..Len(base.numbers[n].segments) :
            base.numbers[n].segments[k].id = segment_id }

\* C14: for every overlay track whose first SegmentTime references a segment
\* of the base, the merged track's act and scene are the act and the scene of
\* a base number that has that segment.
C14_TrackContext ==
    pc = "merged" =>
        \A i \in 1..Len(overlay.track_timings) :
            (/\ Len(overlay.track_timings[i].segment_times) > 0
             /\ IsKnown(overlay.track_timings[i].segment_times[1].segment_id))
            => \E n \in OwnersOf(overlay.track_timings[i].segment_times[1].segment_id) :
                  /\ merged.libretto.tracks[i].act = Some(base.numbers[n].act)
                  /\ merged.libretto.tracks[i].scene = base.numbers[n].scene

---------------------------------------------------------------------------
(* The timing merge command: validate, then merge and write *)

\* The gate lets through an overlay with a single error
HasSeveralErrors(v) == Len(v.errors) > 1

\* !errors.is_empty()
HasErrors(v) == v.errors # <<>>

\* validate_timing_overlay(&overlay_data, &base)
CommandValidate ==
    /\ pc = "init"
    /\ \E unknown_order \in KeyOrders(UnknownOmitted(base, overlay)),
          conflict_order \in KeyOrders(Conflicting(overlay)) :
          validation' = validate_timing_overlay(overlay, base, unknown_order,
                                                conflict_order)
    /\ pc' = "command_validated"
    /\ UNCHANGED <<classifyVars, timingVars, distributeVars, parseVars, alignVars, mergeVars>>

\* anyhow::bail!("{} validation errors ..", errors.len())
CommandFail ==
    /\ pc = "command_validated"
    /\ HasErrors(validation)
    /\ pc' = "command_failed"
    /\ UNCHANGED <<classifyVars, validation, timingVars, distributeVars, parseVars, alignVars,
                   mergeVars>>

\* let result = merge(&base, &overlay_data)
CommandMerge ==
    /\ pc = "command_validated"
    /\ ~HasErrors(validation)
    /\ merged' = merge(base, overlay)
    /\ pc' = "command_merged"
    /\ UNCHANGED <<classifyVars, output, validation, timingVars, distributeVars, parseVars,
                   alignVars>>

\* std::fs::write(&output, &json) of the serialized result.libretto
CommandWrite ==
    /\ pc = "command_merged"
    /\ output' = Some(merged.libretto)
    /\ pc' = "command_done"
    /\ UNCHANGED <<classifyVars, merged, validation, timingVars, distributeVars, parseVars,
                   alignVars>>

NextCommand == CommandValidate \/ CommandFail \/ CommandMerge \/ CommandWrite

SpecCommand == InitMerge /\ [][NextCommand]_vars

---------------------------------------------------------------------------
(* C15: validation gates merge *)

\* validate_timing_overlay has returned, for the base and overlay of the
\* command, no error
ValidatedClean ==
    /\ validation # <<>>
    /\ validation.errors = <<>>
    /\ \E unknown_order \in KeyOrders(UnknownOmitted(base, overlay)),
          conflict_order \in KeyOrders(Conflicting(overlay)) :
          validation = validate_timing_overlay(overlay, base, unknown_order,
                                               conflict_order)

\* C15: in the timing merge command merge runs and the document is written
\* only after validate_timing_overlay returned no error for the same base and
\* overlay; once it has returned errors, merge is never run and nothing is
\* ever written.
C15_ValidationGatesMerge ==
    /\ [][(merged' # merged \/ output' # output) => ValidatedClean]_vars
    /\ []((merged # <<>> \/ output # <<>>) => ValidatedClean)
    /\ []((validation # <<>> /\ validation.errors # <<>>)
            => [](merged = <<>> /\ output = <<>>))
    /\ [](pc = "command_failed"
            => validation # <<>> /\ validation.errors # <<>>)

\* A document of two tracks with segments was written
C15_Witness ==
    /\ pc = "command_done"
    /\ output = Some(merged.libretto)
    /\ validation.errors = <<>>
    /\ Len(merged.libretto.tracks) = 2
    /\ Len(merged.libretto.tracks[1].segments) > 0

---------------------------------------------------------------------------
(* The resolver on drawn bases and titles *)

\* An anchor that a second line of no-1 and the first line of no-2 contain;
\* a number without segments and one whose first segment has no text
ResolveBase ==
    [numbers |-> <<
        [id |-> "no-1", act |-> "1", segments |-> <<
            Seg("no-1-001", "Sung", Some(<<"O","r"," ","b","e","n","e">> \o <<"LF">> \o <<"B","r","a","v","o"," ","s","i","g","n","o","r">>)),
            Seg("no-1-002", "Direction", None) >>],
        [id |-> "no-2", act |-> "1", segments |-> <<
            Seg("no-2-001", "Sung", Some(<<"B","r","a","v","o">>)),
            Seg("no-2-002", "Sung", Some(<<"S","e"," ","v","u","o","l"," ","b","a","l","l","a","r","e">>)) >>],
        [id |-> "no-3", act |-> "2", segments |-> << >>],
        [id |-> "no-4", act |-> "2", segments |-> <<
            Seg("no-4-001", "Direction", None),
            Seg("no-4-002", "Sung", Some(<<"E","c","c","o"," ","l","a"," ","m","a","r","c","i","a">>)) >>] >>]

ResolveBases == {ResolveBase, BaseA, BaseB}

TitleBravo == <<"A","r","i","a"," ">> \o <<"DQ">> \o <<"B","r","a","v","o">> \o <<"DQ">>

TitleZitto == <<"LDQ">> \o <<"Z","i","t","t","o">> \o <<"RDQ">>

UnsetTrack(title, nids) == Track(title, Some(100000), nids, None, <<>>)

ManualTrack(title, nids, start) == Track(title, Some(100000), nids, Some(start), <<>>)

\* Tracks with and without a quoted anchor, with and without a start
ResolveTrackOptions ==
    { UnsetTrack(TitleBravo, <<"no-1">>),
      UnsetTrack(TitleBravo, <<"no-2">>),
      UnsetTrack(TitleBravo, <<"no-3">>),
      UnsetTrack(TitleRecit, <<"no-1", "no-2">>),
      UnsetTrack(TitleZitto, <<"no-1">>),
      UnsetTrack(TitlePlain, <<"no-1">>),
      UnsetTrack(TitlePlain, <<>>),
      UnsetTrack(TitlePlain, <<"no-3", "no-1">>),
      UnsetTrack(TitlePlain, <<"no-9", "no-1">>),
      UnsetTrack(TitlePlain, <<"no-4">>),
      ManualTrack(TitleBravo, <<"no-1">>, "no-1-002"),
      ManualTrack(TitlePlain, <<"no-1">>, "no-9-001"),
      ManualTrack(TitleZitto, <<"no-2">>, "no-9-001") }

ResolveOverlays ==
    { [track_timings |-> tt, omitted_numbers |-> <<>>] :
        tt \in SeqsUpTo(ResolveTrackOptions, 0, MaxTracks) }

InitResolve ==
    /\ pc = "init"
    /\ base \in ResolveBases
    /\ overlay \in ResolveOverlays
    /\ est = <<>> /\ res = <<>>
    /\ d_segments = <<>> /\ d_duration = 0 /\ d_times = <<>>
    /\ it_elements = <<>> /\ en_elements = <<>> /\ parsed = <<>>
    /\ orig_segs = <<>> /\ trans_segs = <<>> /\ aligned = <<>>
    /\ validation = <<>>
    /\ merged = <<>> /\ output = <<>>
    /\ c_title = <<>> /\ c_anchors = <<>>

NextResolve == Resolve

SpecResolve == InitResolve /\ [][NextResolve]_vars

---------------------------------------------------------------------------
(* C16: manual anchors are preserved *)

HasQuote(title) == \E k \in 1..Len(title) : title[k] \in {"DQ", "LDQ"}

\* C16: a track whose start_segment_id is set in the input overlay has the
\* same start_segment_id in the overlay resolve_anchors returns, whatever its
\* title quotes and whether or not the base has the id, and its resolution
\* reports that id with the method Manual.
C16_ManualPreserved ==
    pc = "resolved" =>
        \A i \in 1..Len(overlay.track_timings) :
            IsSome(overlay.track_timings[i].start_segment_id) =>
                /\ res.overlay.track_timings[i].start_segment_id =
                      overlay.track_timings[i].start_segment_id
                /\ res.resolutions[i].resolved_segment_id =
                      overlay.track_timings[i].start_segment_id
                /\ res.resolutions[i].match_method = Some("Manual")

\* A manual start of a segment the base has, on a track whose title quotes
\* the text of another segment, and a manual start the base does not have
C16_Witness ==
    /\ pc = "resolved"
    /\ base = ResolveBase
    /\ Len(overlay.track_timings) = 2
    /\ overlay.track_timings[1].start_segment_id = Some("no-1-002")
    /\ HasQuote(overlay.track_timings[1].track_title)
    /\ res.overlay.track_timings[1].start_segment_id = Some("no-1-002")
    /\ overlay.track_timings[2].start_segment_id = Some("no-9-001")
    /\ res.resolutions[2].match_method = Some("Manual")

---------------------------------------------------------------------------
(* C17: the fallback of a track without anchor *)

\* The first segment of the first base number with the id, as the claim has it
FirstOfNumber(nid) ==
    IF \E n \in 1..Len(base.numbers) : base.numbers[n].id = nid
    THEN LET n == CHOOSE n \in 1..Len(base.numbers) :
                    /\ base.numbers[n].id = nid
                    /\ \A m \in 1..(n - 1) : base.numbers[m].id # nid
         IN  IF Len(base.numbers[n].segments) > 0
             THEN Some(base.numbers[n].segments[1].id) ELSE None
    ELSE None

ExpectedFallback(track) ==
    IF Len(track.number_ids) = 0 THEN None ELSE FirstOfNumber(track.number_ids[1])

WarningsFor(i) == { w \in 1..Len(res.warnings) : res.warnings[w].track = i }

\* C17: a track without start_segment_id and without quote in its title gets
\* as start_segment_id the id of the first segment of the first number of its
\* number_ids when the base has that number and it has a segment, and keeps
\* none otherwise; no warning is emitted for the track.
C17_NoAnchorFallback ==
    pc = "resolved" =>
        \A i \in 1..Len(overlay.track_timings) :
            (/\ overlay.track_timings[i].start_segment_id = None
             /\ ~HasQuote(overlay.track_timings[i].track_title))
            => /\ res.overlay.track_timings[i].start_segment_id =
                     ExpectedFallback(overlay.track_timings[i])
               /\ WarningsFor(i) = {}

\* A track that falls back to a first segment without text, next to one
\* whose first number has no segment and stays unset
C17_Witness ==
    /\ pc = "resolved"
    /\ base = ResolveBase
    /\ Len(overlay.track_timings) = 2
    /\ overlay.track_timings[1] = UnsetTrack(TitlePlain, <<"no-4">>)
    /\ res.overlay.track_timings[1].start_segment_id = Some("no-4-001")
    /\ overlay.track_timings[2] = UnsetTrack(TitlePlain, <<"no-3", "no-1">>)
    /\ res.overlay.track_timings[2].start_segment_id = None
    /\ res.warnings = <<>>

---------------------------------------------------------------------------
(* C18: the restricted pass *)

\* The candidates that match the anchor by one of the three strategies
AnyStrategyHits(anchor_norm, candidates) ==
    PrefixHits(anchor_norm, candidates)
    \cup NormalizedHits(anchor_norm, candidates)
    \cup SubstringHits(anchor_norm, candidates)

\* Some candidate of the numbers matches the anchor by some strategy
RestrictedMatch(anchor, number_ids, candidates) ==
    \E k \in AnyStrategyHits(normalize_for_match(anchor), candidates) :
        candidates[k].number_id \in number_ids

\* The segment id is of a segment of one of the numbers
SegmentOf(number_ids, segment_id) ==
    \E n \in 1..Len(base.numbers) :
        /\ base.numbers[n].id \in number_ids
        /\ \E k \in 1..Len(base.numbers[n].segments) :
              base.numbers[n].segments[k].id = segment_id

\* C18: when a candidate of the track's own numbers or of the numbers of the
\* track before it matches the track's first anchor by prefix, by first line
\* or by full text, the start_segment_id resolved for the track is a segment
\* of one of those numbers.
C18_RestrictedPriority ==
    pc = "resolved" =>
        \A i \in 1..Len(overlay.track_timings) :
            (/\ overlay.track_timings[i].start_segment_id = None
             /\ extract_anchors(overlay.track_timings[i].track_title) # <<>>
             /\ RestrictedMatch(extract_anchors(overlay.track_timings[i].track_title)[1],
                                SearchNids(overlay, i), build_segment_index(base)))
            => /\ IsSome(res.overlay.track_timings[i].start_segment_id)
               /\ SegmentOf(SearchNids(overlay, i),
                            res.overlay.track_timings[i].start_segment_id[1])

---------------------------------------------------------------------------
(* classify_title_anchors on drawn titles *)

\* What a title is made of: labels with and without keywords and quoted
\* texts, one of which also occurs in a label
TitleFragments ==
    { <<"R","e","c","i","t","a","t","i","v","o"," ">>, <<"A","r","i","a"," ">>, <<"A","r","i","a"," ","e"," ","R","e","c","i","t","a","t","i","v","o"," ">>, <<"R","e","c","i","t","a","t","i","v","o"," ","e","d"," ","A","r","i","a"," ">>,
      <<"S","u","s","a","n","n","a",":"," ">>, <<"C","o","r","o",";"," ">>,
      <<"DQ">> \o <<"B","r","a","v","o">> \o <<"DQ">>,
      <<"DQ">> \o <<"S","u","s","a","n","n","a">> \o <<"DQ", " ">>,
      <<"LDQ">> \o <<" ","A","h"," ">> \o <<"RDQ", " ">>,
      <<"DQ", "DQ">> }

\* Most fragments of a title
MaxFragments == 3

Titles ==
    { Flatten(parts) : parts \in SeqsUpTo(TitleFragments, 0, MaxFragments) }

InitClassify ==
    /\ pc = "init"
    /\ c_title \in Titles
    /\ c_anchors = <<>>
    /\ base = <<>> /\ overlay = <<>> /\ est = <<>> /\ res = <<>>
    /\ d_segments = <<>> /\ d_duration = 0 /\ d_times = <<>>
    /\ it_elements = <<>> /\ en_elements = <<>> /\ parsed = <<>>
    /\ orig_segs = <<>> /\ trans_segs = <<>> /\ aligned = <<>>
    /\ validation = <<>>
    /\ merged = <<>> /\ output = <<>>

\* classify_title_anchors(title)
Classify ==
    /\ pc = "init"
    /\ c_anchors' = classify_title_anchors(c_title)
    /\ pc' = "classified"
    /\ UNCHANGED <<c_title, timingVars, distributeVars, parseVars, alignVars,
                   validation, mergeVars>>

NextClassify == Classify

SpecClassify == InitClassify /\ [][NextClassify]_vars

---------------------------------------------------------------------------
(* C19: the classification of the quoted anchors *)

\* The quoted anchors of the title from position i on, each with the
\* positions of its opening and of its closing quote
RECURSIVE QuotedFrom(_, _)
QuotedFrom(title, i) ==
    IF i > Len(title) THEN <<>>
    ELSE IF title[i] \in {"DQ", "LDQ"}
         THEN LET close == IF title[i] = "LDQ" THEN "RDQ" ELSE "DQ"
                  ends == { j \in (i + 1)..Len(title) : title[j] \in {close, "DQ"} }
                  j == IF ends = {} THEN Len(title) + 1 ELSE Min(ends)
                  quoted == Trim(SubSeq(title, i + 1, j - 1))
              IN  (IF quoted # <<>>
                   THEN <<[open |-> i, close |-> j, anchor |-> quoted]>> ELSE <<>>)
                  \o QuotedFrom(title, j + 1)
         ELSE QuotedFrom(title, i + 1)

\* The positions at which the keyword occurs in the text
Occurrences(text, kw) == { p \in 1..Len(text) : MatchAt(text, kw, p) }

\* 'recitativ' occurs and no sung-form keyword occurs to the right of its
\* rightmost occurrence
RecitativeAsStated(context) ==
    /\ Occurrences(context, KW_RECITATIV) # {}
    /\ \A kw \in SungKeywords :
          \A p \in Occurrences(context, kw) :
              p < Max(Occurrences(context, KW_RECITATIV))

\* The entry the claim states for the k-th quoted anchor
EntryAsStated(title, quoted, k) ==
    [is_recitative |->
        RecitativeAsStated(ToLower(SubSeq(title,
                                          IF k = 1 THEN 1 ELSE quoted[k - 1].close + 1,
                                          quoted[k].open - 1))),
     anchor |-> quoted[k].anchor]

ClassifiedAsStated(title, quoted) ==
    [k \in 1..Len(quoted) |-> EntryAsStated(title, quoted, k)]

\* C19: classify_title_anchors returns one entry per quoted anchor of the
\* title, in order, marked recitative exactly when the title text between the
\* previous quoted anchor (or the title start) and this one has 'recitativ'
\* with no sung-form keyword to the right of its rightmost occurrence.
C19_RecitativeClassification ==
    pc = "classified" =>
        c_anchors = ClassifiedAsStated(c_title, QuotedFrom(c_title, 1))

---------------------------------------------------------------------------
(* C20: the classifier is total *)

\* The PipelineResult is whole: three lists, no more cast members than
\* elements of the cast section, and segment counts that add up
IsWhole(result, elements) ==
    /\ DOMAIN result = {"cast", "numbers", "segments"}
    /\ DOMAIN result.cast = 1..Len(result.cast)
    /\ DOMAIN result.numbers = 1..Len(result.numbers)
    /\ DOMAIN result.segments = 1..Len(result.segments)
    /\ Len(result.cast) <= extract_cast(elements)
    /\ SumSeq([k \in 1..Len(result.numbers) |-> result.numbers[k].segment_count])
          = Len(result.segments)

\* C20: for every token sequence (the empty one, blank lines only, no cast
\* header, no NumberLabel among them) the pipeline returns a cast list,
\* numbers and segments; the cast end offset is at most the length of the
\* sequence and the segment counts of the numbers sum to the number of
\* segments.
C20_ClassifierTotality ==
    pc = "parsed" =>
        /\ extract_cast(it_elements) \in 0..Len(it_elements)
        /\ extract_cast(en_elements) \in 0..Len(en_elements)
        /\ IsWhole(parsed.original, it_elements)
        /\ IsWhole(parsed.translation, en_elements)

\* A cast section that runs to the end of the sequence, and so nothing else
C20_Witness ==
    /\ pc = "parsed"
    /\ Len(it_elements) = 3
    /\ extract_cast(it_elements) = Len(it_elements)
    /\ Len(parsed.original.cast) = 1
    /\ parsed.original.numbers = <<>>
    /\ parsed.original.segments = <<>>

---------------------------------------------------------------------------
(* C21: the estimator and the order of the number map *)

\* The orders in which estimate_timings may visit the numbers of the overlay
VisitOrders ==
    IF has_boundaries(overlay) THEN {<<>>}
    ELSE KeyOrders(covered_number_ids(overlay))

\* C21: for the same base and overlay every run of estimate_timings returns
\* the same segment_times for every track, in whatever order the referenced
\* number ids are visited.
C21_EstimatorDeterminism ==
    pc = "estimated" =>
        \A order \in VisitOrders :
            \A i \in 1..Len(overlay.track_timings) :
                estimate_timings(base, overlay, order).overlay.track_timings[i].segment_times
                    = est.overlay.track_timings[i].segment_times

---------------------------------------------------------------------------
(* The estimator on tracks and numbers it has to skip *)

\* A number of one segment and a number of two
BaseSingle ==
    [numbers |-> <<
        [id |-> "no-1", act |-> "1", segments |-> <<
            Seg("no-1-001", "Sung", Some(<<"S","e"," ","v","u","o","l"," ","b","a","l","l","a","r","e">>)) >>],
        [id |-> "no-2", act |-> "1", segments |-> <<
            Seg("no-2-001", "Sung", Some(<<"O","r"," ","b","e","n","e">>)),
            Seg("no-2-002", "Sung", Some(<<"B","r","a","v","o",","," ","s","i","g","n","o","r"," ","p","a","d","r","o","n","e">>)) >>] >>]

SkipBases == {BaseSingle, BaseB}

\* Tracks without duration, with a duration that is not positive, with
\* numbers the base does not have, and tracks that can be estimated
SkipTracks ==
    { Track(TitlePlain, None, <<"no-1">>, None, <<>>),
      Track(TitlePlain, Some(0), <<"no-1">>, None, <<>>),
      Track(TitlePlain, Some(0 - 5000), <<"no-2">>, None, <<>>),
      Track(TitlePlain, Some(100000), <<"no-1">>, None, <<>>),
      Track(TitlePlain, Some(100000), <<"no-9", "no-2">>, None, <<>>),
      Track(TitlePlain, Some(100000), <<"no-9">>, None, <<>>),
      Track(TitlePlain, Some(50000), <<"no-9", "no-2">>, Some("no-2-001"), <<>>),
      Track(TitlePlain, Some(0), <<"no-1">>, Some("no-1-001"), <<>>) }

SkipOverlays ==
    { [track_timings |-> tt, omitted_numbers |-> <<>>] :
        tt \in SeqsUpTo(SkipTracks, 0, MaxTracks) }

InitSkip ==
    /\ pc = "init"
    /\ base \in SkipBases
    /\ overlay \in SkipOverlays
    /\ est = <<>> /\ res = <<>>
    /\ d_segments = <<>> /\ d_duration = 0 /\ d_times = <<>>
    /\ it_elements = <<>> /\ en_elements = <<>> /\ parsed = <<>>
    /\ orig_segs = <<>> /\ trans_segs = <<>> /\ aligned = <<>>
    /\ validation = <<>>
    /\ merged = <<>> /\ output = <<>>
    /\ c_title = <<>> /\ c_anchors = <<>>

NextSkip == Estimate

SpecSkip == InitSkip /\ [][NextSkip]_vars

---------------------------------------------------------------------------
(* C22: the estimator skips what it cannot estimate *)

InBase(number_id) == \E n \in 1..Len(base.numbers) : base.numbers[n].id = number_id

\* The track has no duration, or one that is not positive
LacksDuration(track) ==
    track.duration_seconds = None \/ track.duration_seconds[1] <= 0

\* A track without duration or with a duration <= 0 keeps empty segment_times
UnestimableKeptEmpty ==
    \A i \in 1..Len(overlay.track_timings) :
        (overlay.track_timings[i].segment_times = <<>>
         /\ LacksDuration(overlay.track_timings[i]))
        => est.overlay.track_timings[i].segment_times = <<>>

\* A referenced number id that the base does not have yields a warning
AbsentNumbersWarned ==
    \A i \in 1..Len(overlay.track_timings) :
        \A k \in 1..Len(overlay.track_timings[i].number_ids) :
            ~InBase(overlay.track_timings[i].number_ids[k])
            => \E w \in 1..Len(est.warnings) :
                  /\ "id" \in DOMAIN est.warnings[w]
                  /\ est.warnings[w].id = overlay.track_timings[i].number_ids[k]

\* The track is the only one that references the number
OnlyReference(i, number_id) ==
    \A j \in 1..Len(overlay.track_timings) :
        j # i => ~Contains(overlay.track_timings[j].number_ids, number_id)

\* In number mode a track with a positive duration and a number of its own
\* that has segments is estimated, whatever absent numbers it or the other
\* tracks reference
OthersEstimated ==
    ~has_boundaries(overlay) =>
        \A i \in 1..Len(overlay.track_timings) :
            (/\ ~LacksDuration(overlay.track_timings[i])
             /\ \A k \in 1..Len(overlay.track_timings[i].number_ids) :
                   OnlyReference(i, overlay.track_timings[i].number_ids[k])
             /\ \E k \in 1..Len(overlay.track_timings[i].number_ids) :
                   /\ InBase(overlay.track_timings[i].number_ids[k])
                   /\ find_number(base, overlay.track_timings[i].number_ids[k])[1].segments
                         # <<>>)
            => est.overlay.track_timings[i].segment_times # <<>>

\* C22: estimate_timings returns a result for every base and overlay; a track
\* without duration_seconds, or with a duration <= 0, keeps empty
\* segment_times; a referenced number id that the base lacks yields a warning
\* and does not keep the other tracks, or the other numbers of the same
\* track, from being estimated.
C22_DegradesBySkipping ==
    pc = "estimated" =>
        /\ Len(est.overlay.track_timings) = Len(overlay.track_timings)
        /\ UnestimableKeptEmpty
        /\ AbsentNumbersWarned
        /\ OthersEstimated

---------------------------------------------------------------------------
(* split_segments on drawn element lists *)

\* What the elements of a number are drawn from
SegmentElems ==
    { Elem("Character", <<"F","I","G","A","R","O">>), Elem("Text", <<"l","a"," ","l","a">>), Elem("Text", <<" ","o","r","a"," ","s","i"," ">>),
      Elem("Text", <<" ">>), Elem("Direction", <<"(","e","s","c","e",")">>), Elem("Direction", <<" ">>),
      BlankLine }

\* Most elements of a number
MaxElems == 4

InitSegments ==
    /\ pc = "init"
    /\ it_elements \in SeqsUpTo(SegmentElems, 0, MaxElems)
    /\ en_elements = <<>> /\ parsed = <<>>
    /\ d_segments = <<>> /\ d_duration = 0 /\ d_times = <<>>
    /\ base = <<>> /\ overlay = <<>> /\ est = <<>> /\ res = <<>>
    /\ orig_segs = <<>> /\ trans_segs = <<>> /\ aligned = <<>>
    /\ validation = <<>>
    /\ merged = <<>> /\ output = <<>>
    /\ c_title = <<>> /\ c_anchors = <<>>

\* split_segments(&RawNumber { id: "no-1", elements, .. })
SplitSegments ==
    /\ pc = "init"
    /\ parsed' = [segments |->
                     split_segments([RawNumber(<<"N","DEG"," ","1">>, <<"n","o","-","1">>, "Aria", <<"1">>)
                                        EXCEPT !.elements = it_elements])]
    /\ pc' = "split"
    /\ UNCHANGED <<classifyVars, it_elements, en_elements, distributeVars, timingVars,
                   alignVars, validation, mergeVars>>

NextSegments == SplitSegments

SpecSegments == InitSegments /\ [][NextSegments]_vars

---------------------------------------------------------------------------
(* C23: the segments of a number *)

\* A Text or Direction that is not empty
IsFilled(elem) == elem.kind \in {"Text", "Direction"} /\ NonBlank(elem.text)

\* The element at p opens a segment: a Character, or the first filled Text or
\* Direction when no Character comes before it
Opens(elements, p) ==
    \/ elements[p].kind = "Character"
    \/ /\ IsFilled(elements[p])
       /\ \A q \in 1..(p - 1) : elements[q].kind # "Character" /\ ~IsFilled(elements[q])

\* The positions that open a segment, in order
Openers(elements) ==
    SelectSeq([p \in 1..Len(elements) |-> p], LAMBDA p : Opens(elements, p))

RECURSIVE JoinWith(_, _)
JoinWith(texts, sep) ==
    IF Len(texts) = 1 THEN texts[1]
    ELSE texts[1] \o <<sep>> \o JoinWith(Tail(texts), sep)

\* The trimmed contents of the filled elements of the kind from position from
\* up to position to
ContentsOf(elements, kind, from, to) ==
    LET at == SelectSeq([p \in 1..Len(elements) |-> p],
                        LAMBDA p : /\ p >= from /\ p <= to
                                   /\ elements[p].kind = kind
                                   /\ IsFilled(elements[p]))
    IN  [k \in 1..Len(at) |-> Trim(elements[at[k]].text)]

Joined(texts, sep) == IF texts = <<>> THEN None ELSE Some(JoinWith(texts, sep))

\* The last position of the k-th segment
SpanEnd(elements, openers, k) ==
    IF k < Len(openers) THEN openers[k + 1] - 1 ELSE Len(elements)

---------------------------------------------------------------------------
(* split_into_numbers on drawn element lists *)

\* Act headers that are and are not recognised, labels of a number, of the
\* overture and of noise, a content and a blank line
StructureElems ==
    { Elem("ActHeader", <<"A","C","T"," ","2">>), Elem("ActHeader", <<"P","e","r","s","o","n","a","g","g","i">>),
      Elem("NumberLabel", <<"N","DEG"," ","1",":"," ","A","r","i","a">>), Elem("NumberLabel", <<"S","i","n","f","o","n","i","a">>),
      Elem("NumberLabel", <<"L","o","r","e","n","z","o"," ","D","a"," ","P","o","n","t","e">>),
      Elem("Text", <<"l","a"," ","l","a">>), BlankLine }

InitNumbers ==
    /\ pc = "init"
    /\ it_elements \in SeqsUpTo(StructureElems, 0, MaxElems)
    /\ en_elements = <<>> /\ parsed = <<>>
    /\ d_segments = <<>> /\ d_duration = 0 /\ d_times = <<>>
    /\ base = <<>> /\ overlay = <<>> /\ est = <<>> /\ res = <<>>
    /\ orig_segs = <<>> /\ trans_segs = <<>> /\ aligned = <<>>
    /\ validation = <<>>
    /\ merged = <<>> /\ output = <<>>
    /\ c_title = <<>> /\ c_anchors = <<>>

\* split_into_numbers(elements)
SplitNumbers ==
    /\ pc = "init"
    /\ parsed' = [numbers |-> split_into_numbers(it_elements)]
    /\ pc' = "numbered"
    /\ UNCHANGED <<classifyVars, it_elements, en_elements, distributeVars, timingVars,
                   alignVars, validation, mergeVars>>

NextNumbers == SplitNumbers

SpecNumbers == InitNumbers /\ [][NextNumbers]_vars

---------------------------------------------------------------------------
(* C24: the numbers of an element list *)

Positions(elements) == [p \in 1..Len(elements) |-> p]

\* A NumberLabel that is no noise
IsLabelAt(elements, p) ==
    elements[p].kind = "NumberLabel" /\ ~is_noise_label(elements[p].text)

IsAttachable(elem) == elem.kind \in {"Character", "Text", "Direction", "BlankLine"}

LabelsOf(elements) == SelectSeq(Positions(elements), LAMBDA p : IsLabelAt(elements, p))

\* The act of the most recent recognised ActHeader before position p
ActBefore(elements, p) ==
    LET acts == { q \in 1..(p - 1) : /\ elements[q].kind = "ActHeader"
                                     /\ IsSome(parse_act_number(elements[q].text)) }
    IN  IF acts = {} THEN <<>> ELSE parse_act_number(elements[Max(acts)].text)[1]

\* The elements between two positions that are attached to a number
AttachedBetween(elements, from, to) ==
    SelectSeq(SubSeq(elements, from, to), IsAttachable)

\* Where the k-th number ends
BlockEnd(elements, labels, k) ==
    IF k < Len(labels) THEN labels[k + 1] - 1 ELSE Len(elements)

\* The number a label opens: its label, its act and what is attached to it
LabelledBlock(elements, labels, k) ==
    [label |-> elements[labels[k]].text,
     act |-> ActBefore(elements, labels[k]),
     elements |-> AttachedBetween(elements, labels[k] + 1, BlockEnd(elements, labels, k))]

\* The numbers the labels open, those left out that received nothing and are
\* no overture
LabelledBlocks(elements, labels) ==
    SelectSeq([k \in 1..Len(labels) |-> LabelledBlock(elements, labels, k)],
              LAMBDA n : n.elements # <<>> \/ classify_number(n.label) = "Overture")

\* The implicit recitative that holds the elements given, if any
ImplicitBlock(attached) ==
    IF attached = <<>> THEN <<>>
    ELSE << [label |-> <<"R","e","c","i","t","a","t","i","v","o">>, act |-> <<"-">>, elements |-> attached] >>

\* The last position before the first label
BeforeLabels(elements, labels) == IF labels = <<>> THEN Len(elements) ELSE labels[1] - 1

\* The first position that holds something other than a blank line and is
\* attached (past the end if none)
FirstContent(elements, to) ==
    Min({ p \in 1..to : IsAttachable(elements[p]) /\ elements[p].kind # "BlankLine" }
        \cup {to + 1})

\* Label, act and elements of a number of the output; the act of the implicit
\* recitative is left out
Outline(n) ==
    [label |-> n.label,
     act |-> IF StartsWith(n.id, <<"r","e","c","-">>) THEN <<"-">> ELSE n.act,
     elements |-> n.elements]

OutlineOf(numbers) == [k \in 1..Len(numbers) |-> Outline(numbers[k])]

\* C24 as stated: with every blank line before the first number attached
\* to the implicit recitative
C24_StructuralSplitAsStated ==
    pc = "numbered" =>
        OutlineOf(parsed.numbers) =
            ImplicitBlock(AttachedBetween(it_elements, 1,
                                          BeforeLabels(it_elements, LabelsOf(it_elements))))
            \o LabelledBlocks(it_elements, LabelsOf(it_elements))

\* C24: the numbers come in the order of their labels; every NumberLabel that
\* is no noise opens a number with the act of the most recent recognised
\* ActHeader before it; every Character, Text, Direction and BlankLine is
\* attached to the number opened last, or, when none is open, to one implicit
\* recitative that comes first and begins with the first element that is no
\* blank line (blank lines before it are dropped); a number that received
\* nothing is in the output only if it is the overture.
C24_StructuralSplit ==
    pc = "numbered" =>
        OutlineOf(parsed.numbers) =
            ImplicitBlock(AttachedBetween(
                              it_elements,
                              FirstContent(it_elements,
                                           BeforeLabels(it_elements, LabelsOf(it_elements))),
                              BeforeLabels(it_elements, LabelsOf(it_elements))))
            \o LabelledBlocks(it_elements, LabelsOf(it_elements))

\* A blank line, then a content that opens the implicit recitative, then an
\* act header and a label that opens a number of that act
C24_Witness ==
    /\ pc = "numbered"
    /\ Len(it_elements) = 4
    /\ it_elements[1] = BlankLine
    /\ it_elements[2].kind = "Text"
    /\ it_elements[3] = Elem("ActHeader", <<"A","C","T"," ","2">>)
    /\ Len(parsed.numbers) = 2
    /\ parsed.numbers[1].elements = <<it_elements[2]>>
    /\ parsed.numbers[2].act = <<"2">>
    /\ parsed.numbers[2].number_type = "Overture"

---------------------------------------------------------------------------
(* C25: the times estimate_timings writes *)

\* The tracks that were empty in the input and hold times in the result
PopulatedByEstimate ==
    { i \in 1..Len(overlay.track_timings) :
        /\ overlay.track_timings[i].segment_times = <<>>
        /\ est.overlay.track_timings[i].segment_times # <<>> }

\* The starts are not negative, never decrease and do not pass the duration
WithinTrack(times, duration) ==
    /\ \A k \in 1..Len(times) : times[k].start >= 0 /\ times[k].start <= duration
    /\ \A k \in 1..(Len(times) - 1) : times[k].start <= times[k + 1].start

\* C25: in both modes every track populated by estimate_timings has starts
\* that are >= 0, non-decreasing and not greater than the track's own
\* duration_seconds.
C25_EstimatedTimesValid ==
    pc = "estimated"
    => \A i \in PopulatedByEstimate :
          /\ IsSome(overlay.track_timings[i].duration_seconds)
          /\ WithinTrack(est.overlay.track_timings[i].segment_times,
                         overlay.track_timings[i].duration_seconds[1])

---------------------------------------------------------------------------
(* C26: the ranges of boundary mode are disjoint *)

\* The segment ids the estimator wrote to track i
EstimatedIds(i) ==
    IF i \in PopulatedByEstimate
    THEN { est.overlay.track_timings[i].segment_times[k].segment_id :
             k \in 1..Len(est.overlay.track_timings[i].segment_times) }
    ELSE {}

\* C26: in boundary mode estimate_timings places no segment id in the
\* segment_times of two different tracks, also when some tracks have a
\* start_segment_id and others fall back to the first segment of their first
\* number.
C26_BoundaryRangesDisjoint ==
    (pc = "estimated" /\ has_boundaries(overlay))
    => \A i, j \in 1..Len(overlay.track_timings) :
          i # j => EstimatedIds(i) \cap EstimatedIds(j) = {}

---------------------------------------------------------------------------
(* C27: estimate_timings run on its own result *)

\* estimate_timings(base, first.overlay): the second run on the overlay the
\* first run returned; res holds its result
EstimateAgain ==
    /\ pc = "estimated"
    /\ \E order \in (IF has_boundaries(est.overlay) THEN {<<>>}
                     ELSE KeyOrders(covered_number_ids(est.overlay))) :
          res' = estimate_timings(base, est.overlay, order)
    /\ pc' = "estimated_again"
    /\ UNCHANGED <<classifyVars, base, overlay, est, distributeVars, parseVars, alignVars,
                   validation, mergeVars>>

NextAgain == Estimate \/ EstimateAgain

SpecAgain == Init /\ [][NextAgain]_vars

\* C27: running estimate_timings on the overlay returned by a first run
\* returns that same overlay.
C27_OverlayIdempotence ==
    pc = "estimated_again" => res.overlay = est.overlay

---------------------------------------------------------------------------
(* C28: the numbers of a validated overlay *)

KnownNumberIds == { base.numbers[n].id : n \in 1..Len(base.numbers) }

\* The number ids the tracks of the overlay reference
TrackNumberIds ==
    UNION { Range(overlay.track_timings[i].number_ids) :
              i \in 1..Len(overlay.track_timings) }

\* C28: whenever validate_timing_overlay returns an empty error set, every
\* number id in any track's number_ids is the id of a number of the base.
C28_ValidatedKnownNumbers ==
    (pc = "validated" /\ validation.errors = <<>>)
    => TrackNumberIds \subseteq KnownNumberIds

---------------------------------------------------------------------------
(* C29: the intervals of a merged libretto *)

\* Every segment of the track that has an end ends no earlier than it starts
WellFormedIntervals(track) ==
    \A j \in 1..Len(track.segments) :
        IsSome(track.segments[j].end)
        => track.segments[j].end[1] >= track.segments[j].start

\* C29: whenever validate_timing_overlay returned an empty error set and the
\* overlay was merged, every merged segment with an end has end >= start,
\* the last segment of a track, whose end is the track's duration, included.
C29_MergedIntervals ==
    (pc \in {"command_merged", "command_done"} /\ validation.errors = <<>>)
    => \A i \in 1..Len(merged.libretto.tracks) :
          WellFormedIntervals(merged.libretto.tracks[i])

---------------------------------------------------------------------------
(* The authoring lifecycle: scaffold, durations, estimate *)

\* scaffold_overlay(base, base_path): one track per number, holding every
\* segment id of the number with a start of 0.0
scaffold_overlay(b) ==
    [recording |-> [conductor |-> None, orchestra |-> None, album_title |-> None],
     track_timings |->
        [n \in 1..Len(b.numbers) |->
            [track_title |-> b.numbers[n].label,
             disc_number |-> None,
             track_number |-> None,
             duration_seconds |-> None,
             number_ids |-> <<b.numbers[n].id>>,
             start_segment_id |-> None,
             segment_times |->
                 [k \in 1..Len(b.numbers[n].segments) |->
                     [segment_id |-> b.numbers[n].segments[k].id, start |-> 0]]]],
     omitted_numbers |-> <<>>]

\* A base whose numbers carry their display label
Labelled(b) ==
    [numbers |->
        [n \in 1..Len(b.numbers) |->
            [id |-> b.numbers[n].id, act |-> b.numbers[n].act,
             label |-> TitlePlain, segments |-> b.numbers[n].segments]]]

LifecycleBases == { Labelled(b) : b \in {BaseA, BaseB, BaseC, BaseSingle} }

\* The durations an author gives a track
AuthoredDurations == {30000, 50000, 100000}

InitLifecycle ==
    /\ pc = "init"
    /\ base \in LifecycleBases
    /\ overlay = <<>>
    /\ est = <<>> /\ res = <<>>
    /\ d_segments = <<>> /\ d_duration = 0 /\ d_times = <<>>
    /\ it_elements = <<>> /\ en_elements = <<>> /\ parsed = <<>>
    /\ orig_segs = <<>> /\ trans_segs = <<>> /\ aligned = <<>>
    /\ validation = <<>>
    /\ merged = <<>> /\ output = <<>>
    /\ c_title = <<>> /\ c_anchors = <<>>

\* timing init: scaffold_overlay(&base_libretto, &base)
Scaffold ==
    /\ pc = "init"
    /\ overlay' = scaffold_overlay(base)
    /\ pc' = "scaffolded"
    /\ UNCHANGED <<classifyVars, base, est, res, distributeVars, parseVars, alignVars,
                   validation, mergeVars>>

\* The author gives every track of the scaffold a positive duration
SetDurations ==
    /\ pc = "scaffolded"
    /\ \E durations \in [1..Len(overlay.track_timings) -> AuthoredDurations] :
          overlay' = [overlay EXCEPT !.track_timings =
                         [i \in 1..Len(overlay.track_timings) |->
                             [overlay.track_timings[i] EXCEPT
                                 !.duration_seconds = Some(durations[i])]]]
    /\ pc' = "timed"
    /\ UNCHANGED <<classifyVars, base, est, res, distributeVars, parseVars, alignVars,
                   validation, mergeVars>>

\* timing estimate on the scaffold with durations
EstimateScaffold ==
    /\ pc = "timed"
    /\ \E order \in (IF has_boundaries(overlay) THEN {<<>>}
                     ELSE KeyOrders(covered_number_ids(overlay))) :
          est' = estimate_timings(base, overlay, order)
    /\ pc' = "estimated"
    /\ UNCHANGED <<classifyVars, base, overlay, res, distributeVars, parseVars, alignVars,
                   validation, mergeVars>>

NextLifecycle == Scaffold \/ SetDurations \/ EstimateScaffold

SpecLifecycle == InitLifecycle /\ [][NextLifecycle]_vars

---------------------------------------------------------------------------
(* C30: scaffold, then estimate *)

StartsOf(times) == [k \in 1..Len(times) |-> times[k].start]

\* The starts of the segments of number n over a duration, each in
\* proportion to the weight before it
ProportionalStarts(number, duration) ==
    StartsOf(distribute_segments(collect_number_segments(number), duration))

\* C30: the overlay that scaffold_overlay produces for a base, once every
\* track has a positive duration, is filled by estimate_timings: the track
\* of every number holds the proportional start times of the number's
\* segments over the track's duration.
C30_ScaffoldThenEstimate ==
    pc = "estimated"
    => \A n \in 1..Len(base.numbers) :
          StartsOf(est.overlay.track_timings[n].segment_times)
             = ProportionalStarts(base.numbers[n],
                                  overlay.track_timings[n].duration_seconds[1])

====
